---------------------------- MODULE Spec2Model ----------------------------
(***************************************************************************)
(* A model of the acquisition pipeline of macroscoop:                      *)
(*   - BaseSource.collect and the session statistics (app/base.py),        *)
(*   - BaseHTTPSource.request over a requests session whose adapter        *)
(*     retries with urllib3's Retry (app/base.py),                         *)
(*   - the channel / video upserts of the SQLite store (app/db_utils.py).  *)
(* Each part has its own specification (SpecCollect, SpecHttp, SpecStore)  *)
(* over the shared variables; Spec is their interleaving.                  *)
(***************************************************************************)
EXTENDS Integers, Sequences, FiniteSets, TLC

VARIABLES
    kind,             \* class of the source object: "base" or "http"
    stats,            \* self.stats, a dict (a function over its keys)
    pc,               \* position inside collect()
    raw_items,        \* collect(): the list fetch returned
    idx,              \* collect(): index of the raw item the loop is at
    validated_items,  \* collect(): the local list of validated items
    inflight,         \* collect(): the exception fetch raised in the current or last call
    end_calls,        \* end_session calls made by the current collect() call
    ncollect,         \* collect() calls started so far
    ret,              \* what the most recent call on the source gave its caller
    hook,             \* the concrete class defines _enforce_rate_limit
    hpc,              \* position inside request()
    method,           \* request(): the HTTP method
    history,          \* the transport's answers to the attempts of the current request
    attempts,         \* transport attempts of the current logical request
    retry_total,      \* urllib3 Retry.total: retries still allowed
    sess,             \* what session.request gave request(): a response or an exception
    hret,             \* what the most recent request() call gave its caller
    pre,              \* self.stats as it was when that request() call began
    nreq,             \* request() calls started so far
    channel,          \* the rows of table channel, in rowid order
    video,            \* the rows of table video, in rowid order
    last_op,          \* the most recent call on the store: name, arguments, result
    before,           \* table channel as it was when that call began
    repeated,         \* that call repeats, with the same arguments, a successful call just before it
    outcome,          \* how that call ended: "ok", "not_found", "storage_error"
    nops,             \* calls made on the store so far
    video_processing, \* the rows of table video_processing, in rowid order
    missing,          \* what the most recent get_missing_video_ids call returned
    feed,             \* the Form 4 feed the scan reads: its length, its first stale item
    start,            \* get_recent_form4_filings(): the offset of the next page
    holder,           \* get_recent_form4_filings(): the items gathered so far
    fetches,          \* the offsets of the pages the scan has requested, in order
    spc,              \* position inside get_recent_form4_filings()
    scan_ret,         \* how the scan ended: "returned" or "raised"
    waited,           \* the EDGAR client has slept in _rate_limit since its last request
    ndispatch,        \* requests sent by the EDGAR client call under way
    filings_list,     \* process_and_store_form4s(): the list of filings to process
    fidx,             \* process_and_store_form4s(): index of the filing the loop is at
    bstats,           \* process_and_store_form4s(): its stats dict
    bpc,              \* position inside process_and_store_form4s()
    form4_data,       \* what process_form4_filing returned for the filing at fidx
    db_filings,       \* the filing rows of the EDGAR store
    db_transactions,  \* the transaction rows of the EDGAR store
    last_store,       \* how the loop body ended for the most recent filing
    nbatch,           \* process_and_store_form4s() calls started so far
    wpc,              \* per worker: position inside its upsert call
    wargs,            \* per worker: the table and the row of its upsert
    wsaw,             \* per worker: whether its statement met a row with its key
    wlock,            \* the worker holding the write lock of the database, 0 for none
    wret,             \* per worker: what its call returned
    cells,            \* the stats dicts of the two sources, by the dict object
    src_pc,           \* per source: position inside its collect() call
    src_items,        \* per source: the list its fetch returned
    src_idx,          \* per source: index of the raw item its loop is at
    overlapped,       \* a source began its session while the other was inside its own
    upc,              \* the URL builder: "new", "constructed", "built"
    base_arg,         \* the base_url argument the source was constructed with
    base_url,         \* self.base_url
    url_arg,          \* the argument of the most recent _build_url call
    built,            \* what that call returned
    rebuilt,          \* what _build_url returns for that result
    ipc,              \* position inside initalize_new_channel()
    ibound,           \* the names of the store functions are bound where it runs
    backlog,          \* initalize_new_channel(): how the upsert of each backlog video ends
    eidx,             \* initalize_new_channel(): index of the entry the loop is at
    ifailed,          \* an upsert of this run returned False or raised
    iret,             \* what initalize_new_channel() returned
    rpc,              \* per batch run: position in the loop body for the shared filing
    rdata,            \* per batch run: what process_form4_filing returned to it
    rsaw,             \* per batch run: what get_filing_by_accession answered
    rres,             \* per batch run: how the loop body ended
    heap,             \* the list objects: what each holds
    self_stats,       \* self.stats of a source: its counters, and which list is its 'errors'
    returned,         \* the dict get_stats() returned to the caller, likewise
    client,           \* the HTTP client or source most recently constructed
    call,             \* the last request or transcript fetch made through it
    now               \* the wall clock, in seconds

collectVars == <<kind, pc, raw_items, idx, validated_items, inflight,
                 end_calls, ncollect, ret>>

httpVars == <<hook, hpc, method, history, attempts, retry_total, sess, hret, pre, nreq>>

storeVars == <<channel, video, last_op, before, repeated, outcome, nops>>

procVars == <<video_processing, missing>>

scanVars == <<feed, start, holder, fetches, spc, scan_ret>>

batchVars == <<filings_list, fidx, bstats, bpc, form4_data, db_filings,
               db_transactions, last_store, nbatch>>

edgarVars == <<scanVars, batchVars, waited, ndispatch>>

constructVars == <<client, call>>

workerVars == <<wpc, wargs, wsaw, wlock, wret>>

sourcesVars == <<cells, src_pc, src_items, src_idx, overlapped>>

urlVars == <<upc, base_arg, base_url, url_arg, built, rebuilt>>

backlogVars == <<ipc, ibound, backlog, eidx, ifailed, iret>>

runsVars == <<rpc, rdata, rsaw, rres>>

snapVars == <<heap, self_stats, returned>>

lateVars == <<runsVars, snapVars>>

auxVars == <<constructVars, workerVars, sourcesVars, urlVars, backlogVars,
             lateVars>>

sourceVars == <<kind, stats, pc, raw_items, idx, validated_items, inflight,
                end_calls, ncollect, ret, hook, hpc, method, history, attempts,
                retry_total, sess, hret, pre, nreq>>

----------------------------------------------------------------------------
(* Bounds of the model. *)

\* longest list fetch returns
MaxItems == 2
\* collect() calls on one source object
MaxCollects == 2
\* request() calls on one source object
MaxRequests == 2
\* calls on the store
MaxOps == 3
\* most items the Form 4 feed holds
MaxFeed == 250
\* most pages one scan of the feed requests
MaxPages == 4
\* longest list of filings one batch is given
MaxFilings == 2
\* process_and_store_form4s() calls on one client and store
MaxBatches == 1
\* most transactions one Form 4 reports
MaxTxns == 2
\* the latest second the wall clock reaches
MaxClock == 2

\* characters of a URL or path
MaxUrlLen == 5

\* videos of a channel's backlog
MaxBacklog == 2

\* records appended to the error lists of a source
MaxTracked == 3

----------------------------------------------------------------------------
(* Python values. *)

\* None; the clock starts above it, so a datetime is never equal to None
None == 0

\* dict helpers: d[k] = v, d.get(k, default)
Put(d, k, v) == [x \in (DOMAIN d) \cup {k} |-> IF x = k THEN v ELSE d[x]]

Get(d, k, default) == IF k \in DOMAIN d THEN d[k] ELSE default

\* s[:n] of a string.  A string is held as the value it is the text of and
\* the number of leading characters of that text it keeps: [of, len]
Take(s, n) == [s EXCEPT !.len = IF @ < n THEN @ ELSE n]

\* the slice length collect() keeps of str(raw_item) as the error context
ContextLen == 100

----------------------------------------------------------------------------
(* The abstract methods fetch / parse / validate: the raw items a concrete *)
(* source can meet, told apart by what parse and validate do with them.    *)

RawItem == {"good", "absent", "empty", "invalid", "parse_raises", "validate_raises"}

\* len(str(raw_item)): below, at and above the 100 characters collect() keeps
StrLen(r) ==
    CASE r = "good" -> 3
      [] r = "absent" -> 2
      [] r = "empty" -> 2
      [] r = "invalid" -> 4
      [] r = "parse_raises" -> 130
      [] r = "validate_raises" -> 100

\* str(raw_item): the whole text of r
Str(r) == [of |-> r, len |-> StrLen(r)]

\* parse(raw_item): raises, returns None, or returns the parsed item, which
\* for the raw item "empty" is a dict without entries
Parse(r) ==
    CASE r = "parse_raises" -> [tag |-> "raise", of |-> r]
      [] r = "absent" -> [tag |-> "None", of |-> r]
      [] OTHER -> [tag |-> "parsed", of |-> r]

\* not parsed: None, and a parsed item without entries
Falsy(p) == p.tag = "None" \/ p.of = "empty"

\* validate(parsed): raises, or returns True or False
Validate(p) ==
    CASE p.of = "validate_raises" -> "raise"
      [] p.of = "invalid" -> "False"
      [] OTHER -> "True"

\* str(e) of the exception parse or validate raised for r
ExcMessage(r) == <<"error in", r>>

\* the lists fetch can return
RawLists == UNION {[1..n -> RawItem] : n \in 0..MaxItems}

----------------------------------------------------------------------------
(* BaseSource: statistics and session bookkeeping. *)

\* the dict BaseSource.__init__ and reset_stats build
BaseStats ==
    [items_fetched |-> 0, items_validated |-> 0, items_failed |-> 0,
     errors |-> <<>>, session_start |-> None, session_end |-> None]

\* the empty dict
EmptyDict == [k \in {} |-> 0]

\* the keys BaseHTTPSource.__init__ adds with self.stats.update
HttpStats ==
    [total_requests |-> 0, successful_requests |-> 0, failed_requests |-> 0,
     errors_by_type |-> EmptyDict]

\* _track_error: append one record to stats['errors']
TrackError(st, error_type, message, context) ==
    [st EXCEPT !.errors = Append(@, [type |-> error_type, message |-> message,
                                     context |-> context, timestamp |-> now])]

\* start_session: only the start timestamp is set; no counter is reset
StartSession(st) == [st EXCEPT !.session_start = now]

\* BaseSource.end_session
BaseEndSession(st) == [st EXCEPT !.session_end = now]

\* BaseHTTPSource.end_session reads the HTTP counters after super().end_session():
\* TRUE when one of those reads raises KeyError
HttpEndSessionRaises(st) ==
    /\ st.session_start # None
    /\ \/ "total_requests" \notin DOMAIN st
       \/ (st.total_requests > 0 /\ "successful_requests" \notin DOMAIN st)
       \/ "errors_by_type" \notin DOMAIN st

\* the value collect() hands its caller
NoRet == [kind |-> "none", value |-> <<>>, error |-> "none"]

Returned(v) == [kind |-> "returned", value |-> v, error |-> "none"]

Raised(e) == [kind |-> "raised", value |-> <<>>, error |-> e]

----------------------------------------------------------------------------
(* The transport under session.request, and the retry policy _setup_session *)
(* mounts: urllib3's Retry(total=max_retries, status_forcelist=...,         *)
(* allowed_methods=..., raise_on_status=False) in a requests HTTPAdapter.   *)

\* max_retries, the default of BaseHTTPSource.__init__
MaxRetries == 3

\* status_forcelist
StatusForcelist == {429, 500, 502, 503, 504}

\* allowed_methods
AllowedMethods == {"HEAD", "GET", "OPTIONS", "POST"}

\* urllib3's Retry.RETRY_AFTER_STATUS_CODES, honoured because the Retry is
\* built without respect_retry_after_header=False
RetryAfterStatusCodes == {413, 429, 503}

\* the methods request() is called with: one that is retried, one that is not
Methods == {"GET", "PUT"}

\* one answer of the transport: a response (status, Retry-After header sent
\* or not) or a failure of the connection
Resp(s, ra) == [status |-> s, retry_after |-> ra, error |-> "none"]

Err(e) == [status |-> 0, retry_after |-> FALSE, error |-> e]

Answers ==
    {Resp(200, FALSE), Resp(404, FALSE), Resp(503, FALSE), Resp(413, TRUE),
     Err("connect_error"), Err("connect_timeout"), Err("read_timeout")}

\* Retry.is_retry(method, status_code, has_retry_after)
IsRetry(m, total, a) ==
    /\ m \in AllowedMethods
    /\ \/ a.status \in StatusForcelist
       \/ (total # 0 /\ a.retry_after /\ a.status \in RetryAfterStatusCodes)

\* AfterAnswer with the retry budget tested before it is decremented: one
\* attempt more than Retry(total) allows
AfterAnswerOneMore(m, total, a) ==
    IF a.error = "none" /\ ~IsRetry(m, total, a)
    THEN [next |-> "done", status |-> a.status, exc |-> "none"]
    ELSE IF a.error = "read_timeout" /\ m \notin AllowedMethods
    THEN [next |-> "done", status |-> 0, exc |-> "ReadTimeout"]
    ELSE IF total >= 0
    THEN [next |-> "retry", status |-> 0, exc |-> "none"]
    ELSE [next |-> "done", status |-> a.status,
          exc |-> IF a.error = "none" THEN "none" ELSE "ConnectionError"]

\* what session.request does with answer a when Retry.total is total:
\* "retry" (another attempt follows), or its result: the response, or the
\* requests exception the adapter raises
AfterAnswer(m, total, a) ==
    IF a.error = "none"
    THEN IF IsRetry(m, total, a) /\ total - 1 >= 0
         THEN [next |-> "retry", status |-> 0, exc |-> "none"]
         ELSE [next |-> "done", status |-> a.status, exc |-> "none"]
    ELSE IF a.error \in {"connect_error", "connect_timeout"}
    THEN IF total - 1 >= 0
         THEN [next |-> "retry", status |-> 0, exc |-> "none"]
         ELSE [next |-> "done", status |-> 0,
               exc |-> IF a.error = "connect_timeout" THEN "ConnectTimeout"
                       ELSE "ConnectionError"]
    ELSE IF m \notin AllowedMethods
    THEN [next |-> "done", status |-> 0, exc |-> "ReadTimeout"]
    ELSE IF total - 1 >= 0
    THEN [next |-> "retry", status |-> 0, exc |-> "none"]
    ELSE [next |-> "done", status |-> 0, exc |-> "ConnectionError"]

\* bool(response): requests.Response.__bool__ is Response.ok
Truthy(status) == status < 400

\* response.raise_for_status() raises HTTPError
RaisesForStatus(status) == 400 <= status /\ status < 600

\* f'http_{status}'
HttpClass(status) ==
    CASE status = "unknown" -> "http_unknown"
      [] status = "404" -> "http_404"
      [] status = "413" -> "http_413"
      [] status = "503" -> "http_503"

\* str(status_code)
StatusStr(s) ==
    CASE s = 404 -> "404"
      [] s = 413 -> "413"
      [] s = 503 -> "503"
      [] s = 200 -> "200"

\* the except clause of request() that catches exception e, by the order of
\* the clauses and the classes of requests.exceptions
ExceptClause(e) ==
    CASE e = "HTTPError" -> "http_error"
      [] e \in {"ConnectTimeout", "ReadTimeout"} -> "timeout"
      [] e = "ConnectionError" -> "connection_error"
      [] e = "MissingSchema" -> "request_exception"
      [] OTHER -> "unexpected_error"

\* TrackHttpError that sets the count of the class to one
TrackHttpErrorOverwriting(st, error_type) ==
    [st EXCEPT !.errors_by_type = Put(@, error_type, 1)]

\* _track_http_error
TrackHttpError(st, error_type) ==
    [st EXCEPT !.errors_by_type = Put(@, error_type, Get(@, error_type, 0) + 1)]

\* what request() gives its caller
NoResult == [kind |-> "none", status |-> 0, error |-> "none"]

Response(s) == [kind |-> "response", status |-> s, error |-> "none"]

ReturnsNone == [kind |-> "None", status |-> 0, error |-> "none"]

Propagates(e) == [kind |-> "raised", status |-> 0, error |-> e]

\* the response or exception session.request handed back
SessResponse(s) == [status |-> s, exc |-> "none"]

SessRaises(e) == [status |-> 0, exc |-> e]

NoSess == [status |-> 0, exc |-> "none"]

\* the url request() works on
Url == "https://api.example.com/items"

----------------------------------------------------------------------------
(* request(), one action per step. *)

\* request() is entered: _build_url, _enforce_rate_limit, total_requests += 1,
\* then session.request starts or fails before it reaches the transport
\* (early = "MissingSchema", a RequestException; "TypeError", any other one)
RequestStart ==
    /\ hpc = "idle"
    /\ pc = "idle"
    /\ kind = "http"
    /\ nreq < MaxRequests
    /\ nreq' = nreq + 1
    /\ pre' = stats
    /\ attempts' = 0
    /\ retry_total' = MaxRetries
    /\ history' = <<>>
    /\ \E m \in Methods, early \in {"none", "MissingSchema", "TypeError"} :
        /\ method' = m
        /\ IF ~hook
           THEN /\ hret' = Propagates("AttributeError")
                /\ sess' = NoSess
                /\ UNCHANGED <<stats, hpc>>
           ELSE IF "total_requests" \notin DOMAIN stats
           THEN /\ hret' = Propagates("KeyError")
                /\ sess' = NoSess
                /\ UNCHANGED <<stats, hpc>>
           ELSE /\ stats' = [stats EXCEPT !.total_requests = @ + 1]
                /\ hret' = NoResult
                /\ IF early = "none"
                   THEN hpc' = "sending" /\ sess' = NoSess
                   ELSE hpc' = "handling" /\ sess' = SessRaises(early)
    /\ UNCHANGED <<hook, now>>
    /\ UNCHANGED collectVars
    /\ UNCHANGED <<storeVars, procVars, edgarVars, auxVars>>

\* one attempt on the transport, which answers a, and the retry policy's
\* verdict on the answer
TransportAttempt ==
    /\ hpc = "sending"
    /\ attempts' = attempts + 1
    /\ \E a \in Answers :
        /\ history' = Append(history, a)
        /\ LET v == AfterAnswer(method, retry_total, a) IN
            IF v.next = "retry"
            THEN /\ retry_total' = retry_total - 1
                 /\ UNCHANGED <<hpc, sess>>
            ELSE /\ hpc' = "handling"
                 /\ sess' = [status |-> v.status, exc |-> v.exc]
                 /\ UNCHANGED retry_total
    /\ UNCHANGED <<stats, hook, method, hret, pre, nreq, now>>
    /\ UNCHANGED collectVars
    /\ UNCHANGED <<storeVars, procVars, edgarVars, auxVars>>

\* HandledStats that leaves failed_requests alone for an HTTP error status
HandledStatsUncounted(st, r) ==
    IF r.exc = "none" /\ ~RaisesForStatus(r.status)
    THEN [st EXCEPT !.successful_requests = @ + 1]
    ELSE IF r.exc = "none"
    THEN LET status == IF Truthy(r.status) THEN StatusStr(r.status) ELSE "unknown" IN
         TrackError(TrackHttpError(st, HttpClass(status)),
                    "http_error", <<"HTTP", status>>, Url)
    ELSE TrackError(TrackHttpError([st EXCEPT !.failed_requests = @ + 1],
                                   ExceptClause(r.exc)),
                    ExceptClause(r.exc), <<r.exc>>, Url)

\* the statistics after request() dealt with what session.request gave it
HandledStats(st, r) ==
    IF r.exc = "none" /\ ~RaisesForStatus(r.status)
    THEN [st EXCEPT !.successful_requests = @ + 1]
    ELSE IF r.exc = "none"
    THEN LET status == IF Truthy(r.status) THEN StatusStr(r.status) ELSE "unknown" IN
         TrackError(TrackHttpError([st EXCEPT !.failed_requests = @ + 1],
                                   HttpClass(status)),
                    "http_error", <<"HTTP", status>>, Url)
    ELSE TrackError(TrackHttpError([st EXCEPT !.failed_requests = @ + 1],
                                   ExceptClause(r.exc)),
                    ExceptClause(r.exc), <<r.exc>>, Url)

\* what request() returns after that
HandledResult(r) ==
    IF r.exc = "none" /\ ~RaisesForStatus(r.status)
    THEN Response(r.status)
    ELSE ReturnsNone

\* raise_for_status and the try / except of request()
RequestFinish ==
    /\ hpc = "handling"
    /\ stats' = HandledStats(stats, sess)
    /\ hret' = HandledResult(sess)
    /\ hpc' = "idle"
    /\ UNCHANGED <<hook, method, history, attempts, retry_total, sess, pre, nreq, now>>
    /\ UNCHANGED collectVars
    /\ UNCHANGED <<storeVars, procVars, edgarVars, auxVars>>

----------------------------------------------------------------------------
(* The SQLite store of db_utils.py.  A table is the sequence of its rows;   *)
(* the conflict target of each upsert is the table's primary key.           *)

ChannelIds == {"UC1", "UC2"}

ChannelNames == {"alpha", "beta"}

ChannelDescriptions == {"about"}

VideoIds == {"v1", "v2"}

VideoNames == {"talk"}

\* utc_now(): the wall clock to the second; later calls never read less
UtcNow == now

\* the rows of tbl whose column key has value k
RowsOf(tbl, key, k) == {i \in DOMAIN tbl : tbl[i][key] = k}

\* UpsertChannelRow without its ON CONFLICT clause on a table without the
\* key constraint: a plain INSERT
InsertChannelRow(tbl, row) == Append(tbl, row)

\* INSERT INTO channel ... ON CONFLICT(channel_id) DO UPDATE SET ...
UpsertChannelRow(tbl, row) ==
    IF RowsOf(tbl, "channel_id", row.channel_id) = {}
    THEN Append(tbl, row)
    ELSE [i \in DOMAIN tbl |->
            IF tbl[i].channel_id = row.channel_id
            THEN [tbl[i] EXCEPT !.channel_name = row.channel_name,
                                !.channel_description = row.channel_description,
                                !.initialized = row.initialized,
                                !.update_datetime = row.update_datetime]
            ELSE tbl[i]]

\* INSERT INTO video ... ON CONFLICT(video_id) DO UPDATE SET ...
UpsertVideoRow(tbl, row) ==
    IF RowsOf(tbl, "video_id", row.video_id) = {}
    THEN Append(tbl, row)
    ELSE [i \in DOMAIN tbl |->
            IF tbl[i].video_id = row.video_id
            THEN [tbl[i] EXCEPT !.channel_id = row.channel_id,
                                !.video_name = row.video_name,
                                !.video_duration = row.video_duration,
                                !.publication_date = row.publication_date,
                                !.update_datetime = row.update_datetime]
            ELSE tbl[i]]

\* UPDATE channel SET initialized = 1, update_datetime = ? WHERE channel_id = ?
MarkInitializedRows(tbl, id, t) ==
    [i \in DOMAIN tbl |->
        IF tbl[i].channel_id = id
        THEN [tbl[i] EXCEPT !.initialized = 1, !.update_datetime = t]
        ELSE tbl[i]]

\* one call on the store, as the caller sees it
Op(name, args, ok) == [op |-> name, args |-> args, ok |-> ok]

NoOp == Op("none", <<>>, FALSE)

\* insert_channel(db_path, channel_id, channel_name, channel_description,
\* initialized = 0); fails = sqlite3.Error is raised and the with block rolls back
insert_channel ==
    /\ nops < MaxOps
    /\ \E id \in ChannelIds, name \in ChannelNames, descr \in ChannelDescriptions,
          init \in {0, 1}, fails \in BOOLEAN :
        /\ channel' =
             IF fails THEN channel
             ELSE UpsertChannelRow(channel,
                    [channel_id |-> id, channel_name |-> name,
                     channel_description |-> descr, initialized |-> init,
                     update_datetime |-> UtcNow])
        /\ last_op' = Op("insert_channel", <<id, name, descr, init>>, ~fails)
        /\ repeated' = (last_op = Op("insert_channel", <<id, name, descr, init>>, TRUE))
        /\ outcome' = IF fails THEN "storage_error" ELSE "ok"
    /\ before' = channel
    /\ nops' = nops + 1
    /\ UNCHANGED <<video, now>>
    /\ UNCHANGED <<sourceVars, procVars, edgarVars, auxVars>>

\* insert_video(db_path, video_id, channel_id, video_name, video_duration,
\* publication_date)
insert_video ==
    /\ nops < MaxOps
    /\ \E id \in VideoIds, ch \in ChannelIds, name \in VideoNames, fails \in BOOLEAN :
        /\ video' =
             IF fails THEN video
             ELSE UpsertVideoRow(video,
                    [video_id |-> id, channel_id |-> ch, video_name |-> name,
                     video_duration |-> 60, publication_date |-> 1,
                     update_datetime |-> UtcNow])
        /\ last_op' = Op("insert_video", <<id, ch, name>>, ~fails)
        /\ repeated' = (last_op = Op("insert_video", <<id, ch, name>>, TRUE))
        /\ outcome' = IF fails THEN "storage_error" ELSE "ok"
    /\ before' = channel
    /\ nops' = nops + 1
    /\ UNCHANGED <<channel, now>>
    /\ UNCHANGED <<sourceVars, procVars, edgarVars, auxVars>>

\* how a mark_channel_initialized call ends: sqlite3.Error is raised, the
\* UPDATE matched no row (cursor.rowcount == 0), or a row was updated
MarkOutcome(tbl, id, fails) ==
    IF fails THEN "storage_error"
    ELSE IF RowsOf(tbl, "channel_id", id) = {} THEN "not_found"
    ELSE "ok"

\* the value mark_channel_initialized returns for each way it ends: True
\* after an update, False both for no row and for sqlite3.Error
MarkReturns(o) == o = "ok"

\* mark_channel_initialized(db_path, channel_id)
mark_channel_initialized ==
    /\ nops < MaxOps
    /\ \E id \in ChannelIds, fails \in BOOLEAN :
        /\ channel' = IF fails THEN channel ELSE MarkInitializedRows(channel, id, UtcNow)
        /\ outcome' = MarkOutcome(channel, id, fails)
        /\ last_op' = Op("mark_channel_initialized", <<id>>, MarkReturns(outcome'))
        /\ repeated' = (last_op = Op("mark_channel_initialized", <<id>>, TRUE))
    /\ before' = channel
    /\ nops' = nops + 1
    /\ UNCHANGED <<video, now>>
    /\ UNCHANGED <<sourceVars, procVars, edgarVars, auxVars>>

\* a second of wall-clock time passes
Tick ==
    /\ now < MaxClock
    /\ now' = now + 1
    /\ UNCHANGED <<storeVars, procVars, edgarVars, auxVars>>
    /\ UNCHANGED sourceVars

----------------------------------------------------------------------------
(* The processing records of db_utils.py: table video_processing. *)

\* SQL NULL in a text column (None stands for it in a datetime column)
Null == "NULL"

\* the primary key of table video_processing; the schema script is not part
\* of the sources, the specification's schema gives video_id as the key
VideoProcessingKey == "video_id"

\* the step arguments update_video_processing is called with
Steps == {"extract", "summarize", "Summarize", "transcribe"}

\* step.lower()
Lower(step) == IF step = "Summarize" THEN "summarize" ELSE step

\* the status and file_path arguments: a finished step with its output file,
\* a failed one with file_path left at its default None
StepResults == {<<"completed", "out.txt">>, <<"failed", Null>>}

\* f"{step}_status", f"{step}_datetime", f"{step}_file"
ColumnStatus(step) == IF step = "extract" THEN "extract_status" ELSE "summarize_status"

ColumnDatetime(step) == IF step = "extract" THEN "extract_datetime" ELSE "summarize_datetime"

ColumnFile(step) == IF step = "extract" THEN "extract_file" ELSE "summarize_file"

\* the row INSERT INTO video_processing (video_id) VALUES (?) adds
NewProcessingRow(id) ==
    [video_id |-> id,
     extract_status |-> Null, extract_datetime |-> None, extract_file |-> Null,
     summarize_status |-> Null, summarize_datetime |-> None, summarize_file |-> Null]

\* INSERT OR IGNORE INTO video_processing (video_id) VALUES (?)
InsertOrIgnoreRow(tbl, id) ==
    IF RowsOf(tbl, VideoProcessingKey, id) # {} THEN tbl
    ELSE Append(tbl, NewProcessingRow(id))

\* UpdateStepRows writing the three columns of both steps
UpdateBothStepsRows(tbl, id, step, status, t, file) ==
    [i \in DOMAIN tbl |->
        IF tbl[i].video_id = id
        THEN [tbl[i] EXCEPT !.extract_status = status, !.extract_datetime = t,
                            !.extract_file = file, !.summarize_status = status,
                            !.summarize_datetime = t, !.summarize_file = file]
        ELSE tbl[i]]

\* UPDATE video_processing SET {step}_status = ?, {step}_datetime = ?,
\* {step}_file = ? WHERE video_id = ?
UpdateStepRows(tbl, id, step, status, t, file) ==
    [i \in DOMAIN tbl |->
        IF tbl[i].video_id = id
        THEN [tbl[i] EXCEPT ![ColumnStatus(step)] = status,
                            ![ColumnDatetime(step)] = t,
                            ![ColumnFile(step)] = file]
        ELSE tbl[i]]

\* the ids of the rows of a table, in row order
IdsOf(tbl) == [i \in DOMAIN tbl |-> tbl[i].video_id]

\* the query of GetMissingVideoIds with an inner join: the videos that have
\* a processing row
GetProcessedVideoIds(v, vp) ==
    IdsOf(SelectSeq(v, LAMBDA row : RowsOf(vp, "video_id", row.video_id) # {}))

\* SELECT v.video_id FROM video v LEFT JOIN video_processing vp
\* ON v.video_id = vp.video_id WHERE vp.video_id IS NULL: a video row with no
\* partner is joined to NULLs and kept, one with partners is dropped
GetMissingVideoIds(v, vp) ==
    IdsOf(SelectSeq(v, LAMBDA row : RowsOf(vp, "video_id", row.video_id) = {}))

\* get_missing_video_ids(db_path); a sqlite3.Error is not caught
get_missing_video_ids ==
    /\ nops < MaxOps
    /\ \E fails \in BOOLEAN :
        /\ missing' = IF fails THEN missing ELSE GetMissingVideoIds(video, video_processing)
        /\ outcome' = IF fails THEN "storage_error" ELSE "ok"
        /\ last_op' = Op("get_missing_video_ids", <<>>, ~fails)
    /\ repeated' = FALSE
    /\ before' = channel
    /\ nops' = nops + 1
    /\ UNCHANGED <<channel, video, video_processing, now>>
    /\ UNCHANGED <<sourceVars, edgarVars, auxVars>>

\* UpdateOutcome without the check of the step name
UpdateOutcomeUnchecked(tbl, id, step, fails) ==
    IF fails THEN "storage_error"
    ELSE IF RowsOf(InsertOrIgnoreRow(tbl, id), "video_id", id) = {} THEN "not_found"
    ELSE "ok"

\* how an update_video_processing call ends
UpdateOutcome(tbl, id, step, fails) ==
    IF Lower(step) \notin {"extract", "summarize"} THEN "ValueError"
    ELSE IF fails THEN "storage_error"
    ELSE IF RowsOf(InsertOrIgnoreRow(tbl, id), "video_id", id) = {} THEN "not_found"
    ELSE "ok"

\* update_video_processing(db_path, video_id, step, status, file_path = None);
\* fails = sqlite3.Error is raised and the with block rolls back
update_video_processing ==
    /\ nops < MaxOps
    /\ \E id \in VideoIds, step \in Steps, r \in StepResults, fails \in BOOLEAN :
        /\ outcome' = UpdateOutcome(video_processing, id, step, fails)
        /\ video_processing' =
             IF outcome' \in {"ValueError", "storage_error"} THEN video_processing
             ELSE UpdateStepRows(InsertOrIgnoreRow(video_processing, id),
                                 id, Lower(step), r[1], UtcNow, r[2])
        /\ last_op' = Op("update_video_processing",
                         <<id, Lower(step), r[1], r[2], step>>, outcome' = "ok")
    /\ repeated' = FALSE
    /\ before' = channel
    /\ nops' = nops + 1
    /\ UNCHANGED <<channel, video, missing, now>>
    /\ UNCHANGED <<sourceVars, edgarVars, auxVars>>

\* the processing table as the schema script leaves it, and no query made
InitProcessing ==
    /\ video_processing = <<>>
    /\ missing = <<>>

NextProcessing ==
    \/ insert_video
    \/ get_missing_video_ids
    \/ update_video_processing
    \/ Tick

\* the store as the schema script leaves it: both tables empty
InitStore ==
    /\ channel = <<>>
    /\ video = <<>>
    /\ last_op = NoOp
    /\ before = <<>>
    /\ repeated = FALSE
    /\ outcome = "none"
    /\ nops = 0

NextStore ==
    \/ insert_channel
    \/ insert_video
    \/ mark_channel_initialized
    \/ Tick

----------------------------------------------------------------------------
(* collect(), one action per step of its control flow. *)

\* collect() is entered: start_session()
CollectStart ==
    /\ pc = "idle"
    /\ ncollect < MaxCollects
    /\ stats' = StartSession(stats)
    /\ pc' = "fetch"
    /\ ncollect' = ncollect + 1
    /\ end_calls' = 0
    /\ inflight' = "none"
    /\ ret' = NoRet
    /\ raw_items' = <<>>
    /\ validated_items' = <<>>
    /\ idx' = 1
    /\ UNCHANGED <<kind, now>>
    /\ UNCHANGED httpVars
    /\ UNCHANGED <<storeVars, procVars, edgarVars, auxVars>>

\* fetch returns a list: items_fetched is assigned, the loop starts
FetchReturns ==
    /\ pc = "fetch"
    /\ \E items \in RawLists :
        /\ raw_items' = items
        /\ stats' = [stats EXCEPT !.items_fetched = Len(items)]
    /\ validated_items' = <<>>
    /\ idx' = 1
    /\ pc' = "loop"
    /\ UNCHANGED <<kind, inflight, end_calls, ncollect, ret, now>>
    /\ UNCHANGED httpVars
    /\ UNCHANGED <<storeVars, procVars, edgarVars, auxVars>>

\* fetch raises: control goes to the finally block with the error in flight
FetchRaises ==
    /\ pc = "fetch"
    /\ inflight' = "FetchError"
    /\ pc' = "finally"
    /\ UNCHANGED <<kind, stats, raw_items, idx, validated_items, end_calls,
                   ncollect, ret, now>>
    /\ UNCHANGED httpVars
    /\ UNCHANGED <<storeVars, procVars, edgarVars, auxVars>>

\* ItemStats with the context slice left out: the whole str(raw_item) is logged
ItemStatsUntruncated(st, r) ==
    LET parsed == Parse(r)
        raises == \/ parsed.tag = "raise"
                  \/ (~Falsy(parsed) /\ Validate(parsed) = "raise") IN
    IF raises
    THEN TrackError([st EXCEPT !.items_failed = @ + 1],
                    "processing_error", ExcMessage(r), Str(r))
    ELSE IF parsed.tag = "parsed" /\ ~Falsy(parsed) /\ Validate(parsed) = "True"
    THEN [st EXCEPT !.items_validated = @ + 1]
    ELSE [st EXCEPT !.items_failed = @ + 1]

\* the statistics after the loop body ran for raw item r
ItemStats(st, r) ==
    LET parsed == Parse(r) IN
    IF parsed.tag = "raise"
    THEN TrackError([st EXCEPT !.items_failed = @ + 1],
                    "processing_error", ExcMessage(r), Take(Str(r), ContextLen))
    ELSE IF Falsy(parsed)
    THEN [st EXCEPT !.items_failed = @ + 1]
    ELSE LET valid == Validate(parsed) IN
         IF valid = "raise"
         THEN TrackError([st EXCEPT !.items_failed = @ + 1],
                         "processing_error", ExcMessage(r), Take(Str(r), ContextLen))
         ELSE IF valid = "True"
         THEN [st EXCEPT !.items_validated = @ + 1]
         ELSE [st EXCEPT !.items_failed = @ + 1]

\* ItemOutput that drops an item equal to one already accumulated
ItemOutputDeduplicated(out, r) ==
    LET parsed == Parse(r) IN
    IF parsed.tag = "raise" \/ Falsy(parsed) THEN out
    ELSE IF Validate(parsed) = "True" /\ \A i \in DOMAIN out : out[i] # parsed
    THEN Append(out, parsed)
    ELSE out

\* validated_items after the loop body ran for raw item r
ItemOutput(out, r) ==
    LET parsed == Parse(r) IN
    IF parsed.tag = "raise" \/ Falsy(parsed) THEN out
    ELSE IF Validate(parsed) = "True" THEN Append(out, parsed) ELSE out

\* one iteration of the for loop
ProcessItem ==
    /\ pc = "loop"
    /\ idx <= Len(raw_items)
    /\ stats' = ItemStats(stats, raw_items[idx])
    /\ validated_items' = ItemOutput(validated_items, raw_items[idx])
    /\ idx' = idx + 1
    /\ UNCHANGED <<kind, pc, raw_items, inflight, end_calls, ncollect, ret, now>>
    /\ UNCHANGED httpVars
    /\ UNCHANGED <<storeVars, procVars, edgarVars, auxVars>>

\* the loop is over: return validated_items, through the finally block
LoopExit ==
    /\ pc = "loop"
    /\ idx > Len(raw_items)
    /\ pc' = "finally"
    /\ UNCHANGED <<kind, stats, raw_items, idx, validated_items, inflight,
                   end_calls, ncollect, ret, now>>
    /\ UNCHANGED httpVars
    /\ UNCHANGED <<storeVars, procVars, edgarVars, auxVars>>

\* what the caller gets once the finally block has run end_session
CollectResult(st, k, err, out) ==
    IF k = "http" /\ HttpEndSessionRaises(st) THEN Raised("KeyError")
    ELSE IF err # "none" THEN Raised(err)
    ELSE Returned(out)

\* finally: self.end_session(), then the return or the re-raise; the locals
\* of the call are gone with it
Finally ==
    /\ pc = "finally"
    /\ end_calls' = end_calls + 1
    /\ stats' = BaseEndSession(stats)
    /\ ret' = CollectResult(stats', kind, inflight, validated_items)
    /\ pc' = "idle"
    /\ raw_items' = <<>>
    /\ validated_items' = <<>>
    /\ idx' = 1
    /\ UNCHANGED <<kind, inflight, ncollect, now>>
    /\ UNCHANGED httpVars
    /\ UNCHANGED <<storeVars, procVars, edgarVars, auxVars>>

\* reset_stats(), called by the owner of the source between sessions
ResetStats ==
    /\ pc = "idle"
    /\ hpc = "idle"
    /\ stats # BaseStats
    /\ stats' = BaseStats
    /\ ret' = NoRet
    /\ hret' = NoResult
    /\ UNCHANGED <<kind, pc, raw_items, idx, validated_items, inflight,
                   end_calls, ncollect, now>>
    /\ UNCHANGED <<hook, hpc, method, history, attempts, retry_total, sess, pre, nreq>>
    /\ UNCHANGED <<storeVars, procVars, edgarVars, auxVars>>

\* the source right after construction: a direct subclass of BaseSource, or
\* a subclass of BaseHTTPSource with the HTTP counters added.  The state is
\* the one the bodies of the two __init__ methods assign; the call
\* super().__init__(source_id, log_dir, **config) of BaseHTTPSource.__init__
\* hands BaseSource.__init__ one positional argument more than it takes, so a
\* source of kind "http" stands for an object whose class gets past that call.
InitCollect ==
    /\ kind \in {"base", "http"}
    /\ stats = IF kind = "http" THEN BaseStats @@ HttpStats ELSE BaseStats
    /\ pc = "idle"
    /\ raw_items = <<>>
    /\ idx = 1
    /\ validated_items = <<>>
    /\ inflight = "none"
    /\ end_calls = 0
    /\ ncollect = 0
    /\ ret = NoRet

\* no request() call has been made; whether the concrete class supplies the
\* _enforce_rate_limit that request() calls is a fact of that class
InitHttp ==
    /\ hpc = "idle"
    /\ method = "GET"
    /\ history = <<>>
    /\ attempts = 0
    /\ retry_total = MaxRetries
    /\ sess = NoSess
    /\ hret = NoResult
    /\ pre = stats
    /\ nreq = 0

NextHttp ==
    \/ RequestStart
    \/ TransportAttempt
    \/ RequestFinish
    \/ ResetStats

NextCollect ==
    \/ CollectStart
    \/ FetchReturns
    \/ FetchRaises
    \/ ProcessItem
    \/ LoopExit
    \/ Finally
    \/ ResetStats

----------------------------------------------------------------------------
(* EDGARAPIClient: the scan of the current Form 4 feed.  The feed lists its  *)
(* items newest first; item i is entry i of the feed, and the items from     *)
(* stale_from on were updated before the cutoff date.                        *)

\* count, the page size get_recent_form4_filings asks for
Count == 100

\* the feeds the scan can meet; stale_from = len + 1 when no item is stale
Feeds ==
    UNION {{[len |-> n, stale_from |-> k] : k \in 1..(n + 1)} : n \in 0..MaxFeed}

\* x['updated'].date() < date_check for item i of feed f
Stale(f, i) == i >= f.stale_from

\* the entries the server answers start=s&count=c with: the items after the
\* first s, at most c of them
Page(f, s, c) ==
    LET rest == IF f.len > s THEN f.len - s ELSE 0
        n == IF rest < c THEN rest ELSE c IN
    [i \in 1..n |-> s + i]

\* ProcessRss with check set only when every entry of the page is stale
ProcessRssAllStale(entries, f) ==
    [holder |-> entries,
     check |-> \A i \in DOMAIN entries : Stale(f, entries[i])]

\* _process_rss(enteries, date_check): every entry is kept, check is set when
\* one of them is older than the cutoff
ProcessRss(entries, f) ==
    [holder |-> entries,
     check |-> \E i \in DOMAIN entries : Stale(f, entries[i])]

\* NextStart advancing by one less than the page size
NextStartOverlapping(s, c) == s + c - 1

\* start += count
NextStart(s, c) == s + c

\* get_recent_form4_filings() is entered
ScanStart ==
    /\ spc = "idle"
    /\ scan_ret = "none"
    /\ \E f \in Feeds : feed' = f
    /\ start' = 0
    /\ holder' = <<>>
    /\ fetches' = <<>>
    /\ spc' = "wait"
    /\ ndispatch' = 0
    /\ UNCHANGED <<scan_ret, waited, now>>
    /\ UNCHANGED <<sourceVars, storeVars, procVars, batchVars, auxVars>>

\* self._rate_limit() at the top of the loop body
ScanRateLimit ==
    /\ spc = "wait"
    /\ waited' = TRUE
    /\ spc' = "fetch"
    /\ UNCHANGED <<feed, start, holder, fetches, scan_ret, ndispatch, now>>
    /\ UNCHANGED <<sourceVars, storeVars, procVars, batchVars, auxVars>>

\* the rest of the loop body: the page is requested; raise_for_status raises
\* and ends the scan, or the page is processed, start advances, holder is
\* extended and check decides whether the loop breaks
ScanFetch ==
    /\ spc = "fetch"
    /\ Len(fetches) < MaxPages
    /\ fetches' = Append(fetches, start)
    /\ ndispatch' = ndispatch + 1
    /\ waited' = FALSE
    /\ \E raises \in BOOLEAN :
        IF raises
        THEN /\ spc' = "done"
             /\ scan_ret' = "raised"
             /\ UNCHANGED <<start, holder>>
        ELSE LET r == ProcessRss(Page(feed, start, Count), feed) IN
             /\ start' = NextStart(start, Count)
             /\ holder' = holder \o r.holder
             /\ spc' = IF r.check THEN "done" ELSE "wait"
             /\ scan_ret' = IF r.check THEN "returned" ELSE scan_ret
    /\ UNCHANGED <<feed, now>>
    /\ UNCHANGED <<sourceVars, storeVars, procVars, batchVars, auxVars>>

\* the loop body once start has passed the end of the feed and MaxPages
\* requests are on record: the page is requested again and is empty, so
\* _process_rss returns check = False and the loop goes round; the requests
\* past MaxPages and the growth of start beyond the feed are not recorded
ScanFetchPastEnd ==
    /\ spc = "fetch"
    /\ Len(fetches) = MaxPages
    /\ Page(feed, start, Count) = <<>>
    /\ waited' = FALSE
    /\ \E raises \in BOOLEAN :
        IF raises
        THEN /\ spc' = "done"
             /\ scan_ret' = "raised"
        ELSE /\ ~ProcessRss(Page(feed, start, Count), feed).check
             /\ spc' = "wait"
             /\ UNCHANGED scan_ret
    /\ UNCHANGED <<feed, start, holder, fetches, ndispatch, now>>
    /\ UNCHANGED <<sourceVars, storeVars, procVars, batchVars, auxVars>>

\* the client right after construction: no scan made, no request sent
InitScan ==
    /\ feed = [len |-> 0, stale_from |-> 1]
    /\ start = 0
    /\ holder = <<>>
    /\ fetches = <<>>
    /\ spc = "idle"
    /\ scan_ret = "none"

----------------------------------------------------------------------------
(* EDGARAPIClient: processing a list of filings into the EDGAR store.  The  *)
(* store client (module edgar_db) is not part of the sources; its two calls *)
(* are modelled from the specification.                                     *)

Accessions == {"0001-25-000001", "0001-25-000002"}

\* the lists process_and_store_form4s is called with; one accession may be
\* listed twice
FilingLists == UNION {[1..n -> Accessions] : n \in 0..MaxFilings}

\* process_form4_filing returned None
NoForm4 == [accession_number |-> "None", transactions |-> <<>>]

\* the dict process_form4_filing builds for accession a with n transactions
Form4Data(a, n) == [accession_number |-> a, transactions |-> [i \in 1..n |-> i]]

\* BatchStats with total_filings left at 0
BatchStatsUncounted(list) ==
    [total_filings |-> 0, successful |-> 0, failed |-> 0, skipped |-> 0,
     total_transactions |-> 0, failed_accessions |-> <<>>]

\* the stats dict process_and_store_form4s starts with
BatchStats(list) ==
    [total_filings |-> Len(list), successful |-> 0, failed |-> 0, skipped |-> 0,
     total_transactions |-> 0, failed_accessions |-> <<>>]

\* the store: its filing rows and its transaction rows
Db(fs, ts) == [filings |-> fs, transactions |-> ts]

\* db_client.get_filing_by_accession(a) finds a row
FilingExists(fs, a) == \E i \in DOMAIN fs : fs[i].accession_number = a

\* the store once the filing row and the first k transaction rows of data
\* have been inserted
InsertedUpTo(db, data, k) ==
    Db(Append(db.filings, [accession_number |-> data.accession_number]),
       db.transactions \o
           [i \in 1..k |-> [accession_number |-> data.accession_number,
                            txn |-> data.transactions[i]]])

\* InsertForm4Filing without the rollback: the rows inserted before the
\* failing one stay
InsertForm4FilingPartial(db, data, bad) ==
    IF FilingExists(db.filings, data.accession_number)
    THEN [db |-> db, ok |-> FALSE]
    ELSE IF bad # 0
    THEN [db |-> InsertedUpTo(db, data, bad - 1), ok |-> FALSE]
    ELSE [db |-> InsertedUpTo(db, data, Len(data.transactions)), ok |-> TRUE]

\* InsertForm4Filing on a store that lets a second filing row in for an
\* accession number it holds
InsertForm4FilingUnkeyed(db, data, bad) ==
    IF bad # 0
    THEN [db |-> db, ok |-> FALSE]
    ELSE [db |-> InsertedUpTo(db, data, Len(data.transactions)), ok |-> TRUE]

\* db_client.insert_form4_filing(data), all or nothing: the filing row, then
\* one row per transaction; bad is the transaction whose insert fails (0 for
\* none); a failure, also the key conflict of a second filing row for the
\* accession number, rolls everything back and returns False
InsertForm4Filing(db, data, bad) ==
    IF FilingExists(db.filings, data.accession_number) \/ bad # 0
    THEN [db |-> db, ok |-> FALSE]
    ELSE [db |-> InsertedUpTo(db, data, Len(data.transactions)), ok |-> TRUE]

\* what the loop body does with the filing once process_form4_filing is
\* back: count it failed, skip it, or insert it
StoreVerdict(data, exists) ==
    IF data = NoForm4 THEN "failed"
    ELSE IF exists THEN "skipped"
    ELSE "insert"

\* BatchFailed that counts the failure without listing the accession number
BatchFailedUnlisted(st, a, reason) == [st EXCEPT !.failed = @ + 1]

\* stats after a failure with the given reason
BatchFailed(st, a, reason) ==
    [st EXCEPT !.failed = @ + 1,
               !.failed_accessions = Append(@, [accession |-> a, reason |-> reason])]

\* how the loop body ended for one filing
Stored(a, verdict, bad) == [accession |-> a, verdict |-> verdict, bad |-> bad]

\* process_and_store_form4s(filings_list, db_client) is entered
BatchStart ==
    /\ bpc \in {"idle", "done"}
    /\ nbatch < MaxBatches
    /\ nbatch' = nbatch + 1
    /\ \E list \in FilingLists :
        /\ filings_list' = list
        /\ bstats' = BatchStats(list)
        /\ bpc' = IF list = <<>> THEN "done" ELSE "wait1"
    /\ fidx' = 1
    /\ form4_data' = NoForm4
    /\ ndispatch' = 0
    /\ UNCHANGED <<db_filings, db_transactions, last_store, waited, now>>
    /\ UNCHANGED <<sourceVars, storeVars, procVars, scanVars, auxVars>>

\* process_form4_filing: self._rate_limit() at the top of the try block
Form4RateLimit ==
    /\ bpc = "wait1"
    /\ waited' = TRUE
    /\ bpc' = "wait2"
    /\ UNCHANGED <<filings_list, fidx, bstats, form4_data, db_filings,
                   db_transactions, last_store, nbatch, ndispatch, now>>
    /\ UNCHANGED <<sourceVars, storeVars, procVars, scanVars, auxVars>>

\* _get_xml_file: self._rate_limit()
XmlFileRateLimit ==
    /\ bpc = "wait2"
    /\ waited' = TRUE
    /\ bpc' = "txt"
    /\ UNCHANGED <<filings_list, fidx, bstats, form4_data, db_filings,
                   db_transactions, last_store, nbatch, ndispatch, now>>
    /\ UNCHANGED <<sourceVars, storeVars, procVars, scanVars, auxVars>>

\* _get_xml_file: the request for the .txt index of the filing; when
\* raise_for_status raises, process_form4_filing returns None
GetXmlFile ==
    /\ bpc = "txt"
    /\ ndispatch' = ndispatch + 1
    /\ waited' = FALSE
    /\ \E raises \in BOOLEAN :
        /\ bpc' = IF raises THEN "store" ELSE "xml"
        /\ form4_data' = NoForm4
    /\ UNCHANGED <<filings_list, fidx, bstats, db_filings, db_transactions,
                   last_store, nbatch, now>>
    /\ UNCHANGED <<sourceVars, storeVars, procVars, scanVars, auxVars>>

\* process_form4_filing: the request for the .xml document, sent right after
\* _get_xml_file returned, and the parsing of its n transactions
GetForm4Xml ==
    /\ bpc = "xml"
    /\ ndispatch' = ndispatch + 1
    /\ waited' = FALSE
    /\ \E raises \in BOOLEAN, n \in 0..MaxTxns :
        form4_data' = IF raises THEN NoForm4 ELSE Form4Data(filings_list[fidx], n)
    /\ bpc' = "store"
    /\ UNCHANGED <<filings_list, fidx, bstats, db_filings, db_transactions,
                   last_store, nbatch, now>>
    /\ UNCHANGED <<sourceVars, storeVars, procVars, scanVars, auxVars>>

\* the rest of the loop body: the filing is counted failed, skipped, or
\* inserted; a call on the store that raises is caught and counts as failed
StoreFiling ==
    /\ bpc = "store"
    /\ LET a == filings_list[fidx]
           db == Db(db_filings, db_transactions)
           exists == FilingExists(db_filings, form4_data.accession_number)
           verdict == StoreVerdict(form4_data, exists) IN
       \E raises \in {"none", "check", "insert"}, bad \in 0..MaxTxns :
          IF verdict = "failed"
          THEN /\ bstats' = BatchFailed(bstats, a, "Processing failed")
               /\ last_store' = Stored(a, "failed", 0)
               /\ UNCHANGED <<db_filings, db_transactions>>
          ELSE IF raises = "check"
          THEN /\ bstats' = BatchFailed(bstats, a, "exception")
               /\ last_store' = Stored(a, "raised", 0)
               /\ UNCHANGED <<db_filings, db_transactions>>
          ELSE IF verdict = "skipped"
          THEN /\ bstats' = [bstats EXCEPT !.skipped = @ + 1]
               /\ last_store' = Stored(a, "skipped", 0)
               /\ UNCHANGED <<db_filings, db_transactions>>
          ELSE IF raises = "insert"
          THEN /\ bstats' = BatchFailed(bstats, a, "exception")
               /\ last_store' = Stored(a, "raised", 0)
               /\ UNCHANGED <<db_filings, db_transactions>>
          ELSE LET b == IF bad > Len(form4_data.transactions) THEN 0 ELSE bad
                   r == InsertForm4Filing(db, form4_data, b) IN
               /\ db_filings' = r.db.filings
               /\ db_transactions' = r.db.transactions
               /\ bstats' =
                    IF r.ok
                    THEN [bstats EXCEPT !.successful = @ + 1,
                             !.total_transactions = @ + Len(form4_data.transactions)]
                    ELSE BatchFailed(bstats, a, "Database insertion failed")
               /\ last_store' = Stored(a, IF r.ok THEN "stored" ELSE "insert_failed", b)
    /\ fidx' = fidx + 1
    /\ bpc' = IF fidx' > Len(filings_list) THEN "done" ELSE "wait1"
    /\ UNCHANGED <<filings_list, form4_data, nbatch, waited, ndispatch, now>>
    /\ UNCHANGED <<sourceVars, storeVars, procVars, scanVars, auxVars>>

\* no batch has run and the EDGAR store is empty
InitBatch ==
    /\ filings_list = <<>>
    /\ fidx = 1
    /\ bstats = BatchStats(<<>>)
    /\ bpc = "idle"
    /\ form4_data = NoForm4
    /\ db_filings = <<>>
    /\ db_transactions = <<>>
    /\ last_store = Stored("None", "none", 0)
    /\ nbatch = 0

NextBatch ==
    \/ BatchStart
    \/ Form4RateLimit
    \/ XmlFileRateLimit
    \/ GetXmlFile
    \/ GetForm4Xml
    \/ StoreFiling

InitEdgar ==
    /\ InitScan
    /\ InitBatch
    /\ waited = FALSE
    /\ ndispatch = 0

NextScan ==
    \/ ScanStart
    \/ ScanRateLimit
    \/ ScanFetch
    \/ ScanFetchPastEnd

----------------------------------------------------------------------------
(* Construction of the HTTP clients and sources, and the route their        *)
(* requests take.                                                           *)

\* user agents, as the words they are made of: empty, a company name
\* alone, a company name with a contact address
UserAgents == {<<>>, <<"Acme">>, <<"Acme", " ", "admin", "@", "acme.com">>}

\* EDGARAPIClient.__init__: user_agent and "@" in user_agent
ValidUserAgent(ua) == ua # <<>> /\ \E i \in DOMAIN ua : ua[i] = "@"

\* proxy_config: None, or a dict with some of the two credentials
NoProxyConfig == [given |-> FALSE, keys |-> {}]
ProxyConfigs ==
    {NoProxyConfig} \cup
    {[given |-> TRUE, keys |-> k] : k \in SUBSET {"username", "password"}}

\* proxy_config is truthy: a dict with at least one key
Truthful(cfg) == cfg.given /\ cfg.keys # {}

\* proxy_config.get(k) is truthy
HasCredential(cfg, k) == cfg.given /\ k \in cfg.keys

\* a session that sends directly, and one whose two routes go through the
\* authenticated proxy
Direct == [http |-> "direct", https |-> "direct"]
ViaProxy == [http |-> "proxy", https |-> "proxy"]

\* BaseHTTPSource.__init__: if proxy_config: self._configure_proxies(...)
ConfigureProxies(cfg) ==
    IF ~Truthful(cfg) THEN Direct
    ELSE IF ~HasCredential(cfg, "username") \/ ~HasCredential(cfg, "password")
    THEN Direct
    ELSE ViaProxy

\* no client has been constructed
NoClient ==
    [cls |-> "none", user_agent |-> <<>>, proxy_config |-> NoProxyConfig,
     state |-> "none", error |-> "none", session |-> FALSE, proxies |-> Direct]

\* no call has been made through the client
NoCall == [op |-> "none", scheme |-> "none", raised |-> "none", proxied |-> FALSE, n |-> 0]

\* the object a constructor leaves, or the exception it raised
Constructed(cls, ua, cfg, session, proxies) ==
    [cls |-> cls, user_agent |-> ua, proxy_config |-> cfg, state |-> "constructed",
     error |-> "none", session |-> session, proxies |-> proxies]
ConstructorRaised(cls, ua, cfg, e, session) ==
    [cls |-> cls, user_agent |-> ua, proxy_config |-> cfg, state |-> "raised",
     error |-> e, session |-> session, proxies |-> Direct]

\* EDGARAPIClient(user_agent): the user agent is checked before
\* requests.Session() is called
NewEdgarClient(ua) ==
    IF ~ValidUserAgent(ua)
    THEN ConstructorRaised("EDGARAPIClient", ua, NoProxyConfig, "ValueError", FALSE)
    ELSE Constructed("EDGARAPIClient", ua, NoProxyConfig, TRUE, Direct)

\* BaseHTTPSource.__init__ of a concrete subclass.  super().__init__ is
\* handed log_dir as a second positional argument: BaseSource.__init__
\* raises TypeError on it, another class next in the subclass's method
\* resolution order may take it (accepts).  user_agent is stored and put in
\* the session headers as it is.
NewHttpSource(ua, cfg, accepts) ==
    IF ~accepts
    THEN ConstructorRaised("BaseHTTPSource", ua, cfg, "TypeError", FALSE)
    ELSE Constructed("BaseHTTPSource", ua, cfg, TRUE, ConfigureProxies(cfg))

\* ytTranscriptSource.__init__: the same super().__init__ call; the proxy
\* configuration is only stored
NewTranscriptSource(cfg, accepts) ==
    IF ~accepts
    THEN ConstructorRaised("ytTranscriptSource", <<>>, cfg, "TypeError", FALSE)
    ELSE Constructed("ytTranscriptSource", <<>>, cfg, FALSE, Direct)

ConstructEdgarClient ==
    /\ client = NoClient
    /\ \E ua \in UserAgents : client' = NewEdgarClient(ua)
    /\ UNCHANGED <<call, workerVars, sourcesVars, urlVars,
                 backlogVars, lateVars, now>>
    /\ UNCHANGED <<sourceVars, storeVars, procVars, edgarVars>>

ConstructHttpSource ==
    /\ client = NoClient
    /\ \E ua \in UserAgents, cfg \in ProxyConfigs, accepts \in BOOLEAN :
        client' = NewHttpSource(ua, cfg, accepts)
    /\ UNCHANGED <<call, workerVars, sourcesVars, urlVars,
                 backlogVars, lateVars, now>>
    /\ UNCHANGED <<sourceVars, storeVars, procVars, edgarVars>>

ConstructTranscriptSource ==
    /\ client = NoClient
    /\ \E cfg \in ProxyConfigs, accepts \in BOOLEAN :
        client' = NewTranscriptSource(cfg, accepts)
    /\ UNCHANGED <<call, workerVars, sourcesVars, urlVars,
                 backlogVars, lateVars, now>>
    /\ UNCHANGED <<sourceVars, storeVars, procVars, edgarVars>>

\* a request through the session of a constructed BaseHTTPSource: it takes
\* the route the session's proxies give its scheme
SourceRequest ==
    /\ client.state = "constructed"
    /\ client.cls = "BaseHTTPSource"
    /\ call.n < MaxRequests
    /\ \E scheme \in {"http", "https"} :
        call' = [op |-> "request", scheme |-> scheme, raised |-> "none",
                 proxied |-> client.proxies[scheme] = "proxy", n |-> call.n + 1]
    /\ UNCHANGED <<client, workerVars, sourcesVars, urlVars,
                 backlogVars, lateVars, now>>
    /\ UNCHANGED <<sourceVars, storeVars, procVars, edgarVars>>

\* what fetch_transcript does with the stored proxy configuration:
\* self.proxy_config.get(...) ahead of the try block, then a
\* WebshareProxyConfig built from whatever the two look-ups gave
TranscriptRoute(cfg) ==
    IF ~cfg.given
    THEN [raised |-> "AttributeError", proxied |-> FALSE]
    ELSE [raised |-> "none", proxied |-> TRUE]

\* fetch_transcript(video_id) on a constructed ytTranscriptSource
FetchTranscript ==
    /\ client.state = "constructed"
    /\ client.cls = "ytTranscriptSource"
    /\ call.n < MaxRequests
    /\ LET r == TranscriptRoute(client.proxy_config) IN
       call' = [op |-> "fetch_transcript", scheme |-> "https", raised |-> r.raised,
                proxied |-> r.proxied, n |-> call.n + 1]
    /\ UNCHANGED <<client, workerVars, sourcesVars, urlVars,
                 backlogVars, lateVars, now>>
    /\ UNCHANGED <<sourceVars, storeVars, procVars, edgarVars>>

InitConstruct ==
    /\ client = NoClient
    /\ call = NoCall

NextConstruct ==
    \/ ConstructEdgarClient
    \/ ConstructHttpSource
    \/ ConstructTranscriptSource
    \/ SourceRequest
    \/ FetchTranscript

----------------------------------------------------------------------------
(* Two workers that upsert the same key at the same time, each through its  *)
(* own connection.  SQLite lets one connection write at a time: a statement *)
(* that writes takes the write lock of the database, the commit at the end  *)
(* of the with block gives it back.                                         *)

Workers == {1, 2}

\* the rows the two workers upsert: one channel_id, one video_id
WorkerRows ==
    {[tbl |-> "channel",
      row |-> [channel_id |-> "UC1", channel_name |-> name,
               channel_description |-> descr, initialized |-> init,
               update_datetime |-> UtcNow]] :
        name \in ChannelNames, descr \in ChannelDescriptions, init \in {0, 1}}
    \cup
    {[tbl |-> "video",
      row |-> [video_id |-> "v1", channel_id |-> ch, video_name |-> name,
               video_duration |-> 60, publication_date |-> 1,
               update_datetime |-> UtcNow]] :
        ch \in ChannelIds, name \in VideoNames}

NoRow == [tbl |-> "none", row |-> [update_datetime |-> 0]]

\* the key column of a table
KeyOf(tbl) == IF tbl = "channel" THEN "channel_id" ELSE "video_id"

\* MayWrite with no lock on the database
MayWriteUnlocked(lock, w) == TRUE

\* the statement of worker w gets the write lock: it is free or w has it
MayWrite(lock, w) == lock \in {0, w}

\* the table after the statement of a worker is committed: the row is
\* inserted when the statement met no row with its key, and it replaces
\* every other column of the row it met otherwise
Committed(tbl, key, row, saw) ==
    IF ~saw THEN Append(tbl, row)
    ELSE [i \in DOMAIN tbl |-> IF tbl[i][key] = row[key] THEN row ELSE tbl[i]]

\* insert_channel / insert_video is called: now = utc_now()
WorkerCall(w) ==
    /\ wpc[w] = "idle"
    /\ \E a \in WorkerRows : wargs' = [wargs EXCEPT ![w] = a]
    /\ wpc' = [wpc EXCEPT ![w] = "called"]
    /\ UNCHANGED <<wsaw, wlock, wret, now>>
    /\ UNCHANGED <<sourceVars, storeVars, procVars, edgarVars, constructVars,
                   sourcesVars, urlVars, backlogVars, lateVars>>

\* cursor.execute(INSERT ... ON CONFLICT ... DO UPDATE) with the lock granted
WorkerExecute(w) ==
    /\ wpc[w] = "called"
    /\ MayWrite(wlock, w)
    /\ wlock' = w
    /\ LET t == IF wargs[w].tbl = "channel" THEN channel ELSE video
           key == KeyOf(wargs[w].tbl) IN
       wsaw' = [wsaw EXCEPT ![w] = RowsOf(t, key, wargs[w].row[key]) # {}]
    /\ wpc' = [wpc EXCEPT ![w] = "executed"]
    /\ UNCHANGED <<wargs, wret, now>>
    /\ UNCHANGED <<sourceVars, storeVars, procVars, edgarVars, constructVars,
                   sourcesVars, urlVars, backlogVars, lateVars>>

\* cursor.execute while the other worker holds the lock past the busy
\* timeout: sqlite3.OperationalError, caught, the call returns False
WorkerBusy(w) ==
    /\ wpc[w] = "called"
    /\ ~MayWrite(wlock, w)
    /\ wret' = [wret EXCEPT ![w] = "False"]
    /\ wpc' = [wpc EXCEPT ![w] = "done"]
    /\ UNCHANGED <<wargs, wsaw, wlock, now>>
    /\ UNCHANGED <<sourceVars, storeVars, procVars, edgarVars, constructVars,
                   sourcesVars, urlVars, backlogVars, lateVars>>

\* return True inside the with block: the connection commits
WorkerCommit(w) ==
    /\ wpc[w] = "executed"
    /\ IF wargs[w].tbl = "channel"
       THEN /\ channel' = Committed(channel, "channel_id", wargs[w].row, wsaw[w])
            /\ UNCHANGED video
       ELSE /\ video' = Committed(video, "video_id", wargs[w].row, wsaw[w])
            /\ UNCHANGED channel
    /\ wlock' = IF wlock = w THEN 0 ELSE wlock
    /\ wret' = [wret EXCEPT ![w] = "True"]
    /\ wpc' = [wpc EXCEPT ![w] = "done"]
    /\ UNCHANGED <<wargs, wsaw, now>>
    /\ UNCHANGED <<last_op, before, repeated, outcome, nops>>
    /\ UNCHANGED <<sourceVars, procVars, edgarVars, constructVars,
                   sourcesVars, urlVars, backlogVars, lateVars>>

InitWorkers ==
    /\ wpc = [w \in Workers |-> "idle"]
    /\ wargs = [w \in Workers |-> NoRow]
    /\ wsaw = [w \in Workers |-> FALSE]
    /\ wlock = 0
    /\ wret = [w \in Workers |-> "none"]

NextWorkers ==
    \/ \E w \in Workers : WorkerCall(w)
    \/ \E w \in Workers : WorkerExecute(w)
    \/ \E w \in Workers : WorkerBusy(w)
    \/ \E w \in Workers : WorkerCommit(w)
    \/ Tick

----------------------------------------------------------------------------
(* Two sources, each constructed on its own, whose collect() sessions run   *)
(* at the same time: the steps of the two calls interleave.                 *)

Sources == {"s1", "s2"}

\* what the loop body of collect() can meet: an item that is validated, one
\* that fails validation, one whose parse raises
SourceItems == {"good", "invalid", "parse_raises"}

SourceLists == UNION {[1..n -> SourceItems] : n \in 0..MaxItems}

\* StatsCell with one dict shared by every source
StatsCellShared(s) == CHOOSE c \in Sources : TRUE

\* self.stats = {...} in __init__: every source builds a dict of its own
StatsCell(s) == s

\* collect() of source s is entered: start_session()
SourceStart(s) ==
    /\ src_pc[s] = "new"
    /\ cells' = [cells EXCEPT ![StatsCell(s)] = StartSession(@)]
    /\ src_pc' = [src_pc EXCEPT ![s] = "fetch"]
    /\ overlapped' = (overlapped \/
                       \E o \in Sources \ {s} : src_pc[o] \in {"fetch", "loop"})
    /\ UNCHANGED <<src_items, src_idx, now>>
    /\ UNCHANGED <<sourceVars, storeVars, procVars, edgarVars, constructVars,
                   workerVars, urlVars, backlogVars, lateVars>>

\* fetch of source s returns a list: items_fetched is assigned
SourceFetch(s) ==
    /\ src_pc[s] = "fetch"
    /\ \E items \in SourceLists :
        /\ src_items' = [src_items EXCEPT ![s] = items]
        /\ cells' = [cells EXCEPT ![StatsCell(s)].items_fetched = Len(items)]
    /\ src_idx' = [src_idx EXCEPT ![s] = 1]
    /\ src_pc' = [src_pc EXCEPT ![s] = "loop"]
    /\ UNCHANGED <<overlapped, now>>
    /\ UNCHANGED <<sourceVars, storeVars, procVars, edgarVars, constructVars,
                   workerVars, urlVars, backlogVars, lateVars>>

\* one iteration of the for loop of source s
SourceItem(s) ==
    /\ src_pc[s] = "loop"
    /\ src_idx[s] <= Len(src_items[s])
    /\ cells' = [cells EXCEPT ![StatsCell(s)] = ItemStats(@, src_items[s][src_idx[s]])]
    /\ src_idx' = [src_idx EXCEPT ![s] = @ + 1]
    /\ UNCHANGED <<src_pc, src_items, overlapped, now>>
    /\ UNCHANGED <<sourceVars, storeVars, procVars, edgarVars, constructVars,
                   workerVars, urlVars, backlogVars, lateVars>>

\* the loop of source s is over: end_session() in the finally block
SourceEnd(s) ==
    /\ src_pc[s] = "loop"
    /\ src_idx[s] > Len(src_items[s])
    /\ cells' = [cells EXCEPT ![StatsCell(s)] = BaseEndSession(@)]
    /\ src_pc' = [src_pc EXCEPT ![s] = "done"]
    /\ UNCHANGED <<src_items, src_idx, overlapped, now>>
    /\ UNCHANGED <<sourceVars, storeVars, procVars, edgarVars, constructVars,
                   workerVars, urlVars, backlogVars, lateVars>>

\* both sources are constructed
InitSources ==
    /\ cells = [s \in Sources |-> BaseStats]
    /\ src_pc = [s \in Sources |-> "new"]
    /\ src_items = [s \in Sources |-> <<>>]
    /\ src_idx = [s \in Sources |-> 1]
    /\ overlapped = FALSE

NextSources ==
    \/ \E s \in Sources : SourceStart(s)
    \/ \E s \in Sources : SourceFetch(s)
    \/ \E s \in Sources : SourceItem(s)
    \/ \E s \in Sources : SourceEnd(s)

----------------------------------------------------------------------------
(* BaseHTTPSource._build_url.  A string is a sequence of characters; a     *)
(* scheme and its colon ("http:", "https:") count as one character, which  *)
(* only the start of a string has.                                          *)

Schemes == {"http:", "https:"}

Chars == {"/", "a"}

CharStrings(n) == UNION {[1..k -> Chars] : k \in 0..n}

\* the strings of at most MaxUrlLen characters
UrlStrings ==
    CharStrings(MaxUrlLen)
    \cup {<<sch>> \o t : sch \in Schemes, t \in CharStrings(MaxUrlLen - 1)}

RECURSIVE RStrip(_)
\* str.rstrip('/')
RStrip(t) ==
    IF t # <<>> /\ t[Len(t)] = "/" THEN RStrip(SubSeq(t, 1, Len(t) - 1)) ELSE t

\* LStrip that removes nothing
LStripNothing(t) == t

RECURSIVE LStrip(_)
\* str.lstrip('/')
LStrip(t) ==
    IF t # <<>> /\ t[1] = "/" THEN LStrip(Tail(t)) ELSE t

\* url.startswith(('http://', 'https://'))
StartsWithScheme(t) ==
    Len(t) >= 3 /\ t[1] \in Schemes /\ t[2] = "/" /\ t[3] = "/"

\* an Optional[str]: None, or a string
NoneStr == [none |-> TRUE, str |-> <<>>]

Some(t) == [none |-> FALSE, str |-> t]

\* the truth value of an Optional[str]: None and "" are false
TruthyStr(o) == ~o.none /\ o.str # <<>>

\* self.base_url = base_url.rstrip('/') if base_url else None
StoredBaseUrl(arg) == IF TruthyStr(arg) THEN Some(RStrip(arg.str)) ELSE NoneStr

\* _build_url(url) of a source whose self.base_url is base
build_url(base, url) ==
    IF StartsWithScheme(url) THEN url
    ELSE IF TruthyStr(base) THEN base.str \o <<"/">> \o LStrip(url)
    ELSE url

\* BaseHTTPSource.__init__ stores the base URL
SetBaseUrl ==
    /\ upc = "new"
    /\ \E arg \in {NoneStr} \cup {Some(t) : t \in UrlStrings} :
        /\ base_arg' = arg
        /\ base_url' = StoredBaseUrl(arg)
    /\ upc' = "constructed"
    /\ UNCHANGED <<url_arg, built, rebuilt, now>>
    /\ UNCHANGED <<sourceVars, storeVars, procVars, edgarVars, constructVars,
                   workerVars, sourcesVars, backlogVars, lateVars>>

\* a call of _build_url, and a second one on its result
BuildUrl ==
    /\ upc = "constructed"
    /\ \E url \in UrlStrings :
        /\ url_arg' = url
        /\ built' = build_url(base_url, url)
        /\ rebuilt' = build_url(base_url, build_url(base_url, url))
    /\ upc' = "built"
    /\ UNCHANGED <<base_arg, base_url, now>>
    /\ UNCHANGED <<sourceVars, storeVars, procVars, edgarVars, constructVars,
                   workerVars, sourcesVars, backlogVars, lateVars>>

InitUrl ==
    /\ upc = "new"
    /\ base_arg = NoneStr
    /\ base_url = NoneStr
    /\ url_arg = <<>>
    /\ built = <<>>
    /\ rebuilt = <<>>

NextUrl == SetBaseUrl \/ BuildUrl

----------------------------------------------------------------------------
(* ytTranscriptSource.initalize_new_channel: the channel and the videos of *)
(* its backlog are upserted, then the channel is marked initialized.       *)

\* how a call of insert_channel or insert_video ends for its caller
UpsertEnds == {"True", "False", "raise"}

EntryLists == UNION {[1..n -> UpsertEnds] : n \in 0..MaxBacklog}

\* the row insert_channel writes for the channel: initialized = 0
BacklogChannelRow ==
    [channel_id |-> "UC1", channel_name |-> "alpha",
     channel_description |-> "about", initialized |-> 0,
     update_datetime |-> UtcNow]

\* the row insert_video writes for entry i
BacklogVideoRow(i) ==
    [video_id |-> IF i = 1 THEN "v1" ELSE "v2", channel_id |-> "UC1",
     video_name |-> "talk", video_duration |-> 60, publication_date |-> 1,
     update_datetime |-> UtcNow]

\* initalize_new_channel is called; extract_info returns the channel and
\* the entries of its backlog.  The module does not import insert_channel,
\* insert_video, mark_channel_initialized or DB_PATH: whether they are bound
\* where the function runs is a fact of the process that calls it
InitializeStart ==
    /\ ipc = "idle"
    /\ ibound' \in BOOLEAN
    /\ backlog' \in EntryLists
    /\ eidx' = 1
    /\ ifailed' = FALSE
    /\ iret' = "none"
    /\ ipc' = "channel"
    /\ UNCHANGED now
    /\ UNCHANGED <<sourceVars, storeVars, procVars, edgarVars, constructVars,
                   workerVars, sourcesVars, urlVars, lateVars>>

\* insert_channel(DB_PATH, channel_id, channel_name, channel_description):
\* the value it returns is dropped; an exception (NameError when the name is
\* not bound) leaves the function through except Exception
InitializeChannel ==
    /\ ipc = "channel"
    /\ \E ends \in UpsertEnds :
        /\ ~ibound => ends = "raise"
        /\ channel' = IF ends = "True"
                      THEN UpsertChannelRow(channel, BacklogChannelRow)
                      ELSE channel
        /\ ifailed' = (ends # "True")
        /\ ipc' = IF ends = "raise" THEN "done" ELSE "videos"
        /\ iret' = IF ends = "raise" THEN "None" ELSE iret
    /\ UNCHANGED <<ibound, backlog, eidx, now>>
    /\ UNCHANGED <<video, last_op, before, repeated, outcome, nops>>
    /\ UNCHANGED <<sourceVars, procVars, edgarVars, constructVars,
                   workerVars, sourcesVars, urlVars, lateVars>>

\* insert_video(DB_PATH, ...) for one entry: the value it returns is dropped
InitializeVideo ==
    /\ ipc = "videos"
    /\ eidx <= Len(backlog)
    /\ LET ends == backlog[eidx] IN
        /\ video' = IF ends = "True"
                    THEN UpsertVideoRow(video, BacklogVideoRow(eidx))
                    ELSE video
        /\ ifailed' = (ifailed \/ ends # "True")
        /\ ipc' = IF ends = "raise" THEN "done" ELSE "videos"
        /\ iret' = IF ends = "raise" THEN "None" ELSE iret
    /\ eidx' = eidx + 1
    /\ UNCHANGED <<ibound, backlog, now>>
    /\ UNCHANGED <<channel, last_op, before, repeated, outcome, nops>>
    /\ UNCHANGED <<sourceVars, procVars, edgarVars, constructVars,
                   workerVars, sourcesVars, urlVars, lateVars>>

\* the loop is over: mark_channel_initialized(DB_PATH, channel_id); return True
InitializeMark ==
    /\ ipc = "videos"
    /\ eidx > Len(backlog)
    /\ channel' = MarkInitializedRows(channel, "UC1", UtcNow)
    /\ iret' = "True"
    /\ ipc' = "done"
    /\ UNCHANGED <<ibound, backlog, eidx, ifailed, now>>
    /\ UNCHANGED <<video, last_op, before, repeated, outcome, nops>>
    /\ UNCHANGED <<sourceVars, procVars, edgarVars, constructVars,
                   workerVars, sourcesVars, urlVars, lateVars>>

InitBacklog ==
    /\ ipc = "idle"
    /\ ibound = FALSE
    /\ backlog = <<>>
    /\ eidx = 1
    /\ ifailed = FALSE
    /\ iret = "none"

NextBacklog ==
    \/ InitializeStart
    \/ InitializeChannel
    \/ InitializeVideo
    \/ InitializeMark
    \/ Tick

----------------------------------------------------------------------------
(* Two runs of process_and_store_form4s, each with its own client, that    *)
(* meet the same filing and share one store.  The store answers one call   *)
(* at a time; the calls of the two runs interleave.                         *)

Runs == {1, 2}

\* the accession number both runs process
SharedAccession == "0001-25-000001"

\* process_form4_filing(filing) returns the filing with its n transactions
RunProcess(r) ==
    /\ rpc[r] = "idle"
    /\ \E n \in 0..MaxTxns :
        rdata' = [rdata EXCEPT ![r] = Form4Data(SharedAccession, n)]
    /\ rpc' = [rpc EXCEPT ![r] = "check"]
    /\ UNCHANGED <<rsaw, rres, now>>
    /\ UNCHANGED <<sourceVars, storeVars, procVars, edgarVars, constructVars,
                   workerVars, sourcesVars, urlVars, backlogVars, snapVars>>

\* existing = db_client.get_filing_by_accession(...); if existing: skipped
RunCheck(r) ==
    /\ rpc[r] = "check"
    /\ LET exists == FilingExists(db_filings, rdata[r].accession_number) IN
        /\ rsaw' = [rsaw EXCEPT ![r] = exists]
        /\ rpc' = [rpc EXCEPT ![r] =
                      IF StoreVerdict(rdata[r], exists) = "insert"
                      THEN "insert" ELSE "done"]
        /\ rres' = [rres EXCEPT ![r] =
                      IF StoreVerdict(rdata[r], exists) = "insert"
                      THEN @ ELSE StoreVerdict(rdata[r], exists)]
    /\ UNCHANGED <<rdata, now>>
    /\ UNCHANGED <<sourceVars, storeVars, procVars, edgarVars, constructVars,
                   workerVars, sourcesVars, urlVars, backlogVars, snapVars>>

\* db_client.insert_form4_filing(form4_data): successful or failed
RunInsert(r) ==
    /\ rpc[r] = "insert"
    /\ LET res == InsertForm4Filing(Db(db_filings, db_transactions), rdata[r], 0) IN
        /\ db_filings' = res.db.filings
        /\ db_transactions' = res.db.transactions
        /\ rres' = [rres EXCEPT ![r] = IF res.ok THEN "stored" ELSE "insert_failed"]
    /\ rpc' = [rpc EXCEPT ![r] = "done"]
    /\ UNCHANGED <<rdata, rsaw, now>>
    /\ UNCHANGED <<filings_list, fidx, bstats, bpc, form4_data, last_store, nbatch>>
    /\ UNCHANGED <<scanVars, waited, ndispatch>>
    /\ UNCHANGED <<sourceVars, storeVars, procVars, constructVars,
                   workerVars, sourcesVars, urlVars, backlogVars, snapVars>>

InitRuns ==
    /\ rpc = [r \in Runs |-> "idle"]
    /\ rdata = [r \in Runs |-> NoForm4]
    /\ rsaw = [r \in Runs |-> FALSE]
    /\ rres = [r \in Runs |-> "none"]

NextRuns ==
    \/ \E r \in Runs : RunProcess(r)
    \/ \E r \in Runs : RunCheck(r)
    \/ \E r \in Runs : RunInsert(r)

----------------------------------------------------------------------------
(* BaseSource.get_stats.  A dict holds its counters by value and its       *)
(* 'errors' list by reference: the list is an object of the heap, named by *)
(* a number, that several dicts can hold.                                   *)

\* the list objects there can be: the one __init__ builds, the one
\* reset_stats builds
ListIds == {1, 2}

\* the records all lists hold together
Tracked(h) == Len(h[1]) + Len(h[2])

\* return {**self.stats}: a new dict with the same values under the same
\* keys; the value under 'errors' is the list self.stats holds
ShallowCopy(d) == [taken |-> TRUE, items_failed |-> d.items_failed, errors |-> d.errors]

\* what a dict reads as: its counters and the content of its 'errors' list
Reads(d, h) == [items_failed |-> d.items_failed, errors |-> h[d.errors]]

\* the caller calls get_stats()
GetStats ==
    /\ ~returned.taken
    /\ returned' = ShallowCopy(self_stats)
    /\ UNCHANGED <<heap, self_stats, now>>
    /\ UNCHANGED <<sourceVars, storeVars, procVars, edgarVars, constructVars,
                   workerVars, sourcesVars, urlVars, backlogVars, runsVars>>

\* the source fails an item: stats['items_failed'] += 1 and _track_error,
\* which appends a record to self.stats['errors']
SourceTracksError ==
    /\ Tracked(heap) < MaxTracked
    /\ self_stats' = [self_stats EXCEPT !.items_failed = @ + 1]
    /\ heap' = [heap EXCEPT ![self_stats.errors] = Append(@, "source")]
    /\ UNCHANGED <<returned, now>>
    /\ UNCHANGED <<sourceVars, storeVars, procVars, edgarVars, constructVars,
                   workerVars, sourcesVars, urlVars, backlogVars, runsVars>>

\* the caller assigns a counter of the dict it was given
CallerSetsCounter ==
    /\ returned.taken
    /\ returned.items_failed < MaxTracked
    /\ returned' = [returned EXCEPT !.items_failed = @ + 1]
    /\ UNCHANGED <<heap, self_stats, now>>
    /\ UNCHANGED <<sourceVars, storeVars, procVars, edgarVars, constructVars,
                   workerVars, sourcesVars, urlVars, backlogVars, runsVars>>

\* the caller appends to the 'errors' list of the dict it was given
CallerAppendsError ==
    /\ returned.taken
    /\ Tracked(heap) < MaxTracked
    /\ heap' = [heap EXCEPT ![returned.errors] = Append(@, "caller")]
    /\ UNCHANGED <<self_stats, returned, now>>
    /\ UNCHANGED <<sourceVars, storeVars, procVars, edgarVars, constructVars,
                   workerVars, sourcesVars, urlVars, backlogVars, runsVars>>

\* reset_stats(): self.stats is a new dict with a new, empty 'errors' list
SourceResets ==
    /\ self_stats.errors = 1
    /\ self_stats' = [items_failed |-> 0, errors |-> 2]
    /\ UNCHANGED <<heap, returned, now>>
    /\ UNCHANGED <<sourceVars, storeVars, procVars, edgarVars, constructVars,
                   workerVars, sourcesVars, urlVars, backlogVars, runsVars>>

\* the source right after construction; get_stats() not yet called
InitSnapshot ==
    /\ heap = [i \in ListIds |-> <<>>]
    /\ self_stats = [items_failed |-> 0, errors |-> 1]
    /\ returned = [taken |-> FALSE, items_failed |-> 0, errors |-> 1]

NextSnapshot ==
    \/ GetStats
    \/ SourceTracksError
    \/ CallerSetsCounter
    \/ CallerAppendsError
    \/ SourceResets

vars == <<kind, stats, pc, raw_items, idx, validated_items, inflight,
          end_calls, ncollect, ret, hook, hpc, method, history, attempts,
          retry_total, sess, hret, pre, nreq, channel, video, last_op,
          before, repeated, outcome, nops, video_processing, missing,
          feed, start, holder, fetches, spc, scan_ret, waited, ndispatch,
          filings_list, fidx, bstats, bpc, form4_data, db_filings,
          db_transactions, last_store, nbatch, client, call, wpc, wargs,
          wsaw, wlock, wret, cells, src_pc, src_items, src_idx, overlapped,
          upc, base_arg, base_url, url_arg, built, rebuilt, ipc, ibound,
          backlog, eidx, ifailed, iret, rpc, rdata, rsaw, rres, heap,
          self_stats, returned, now>>

Init ==
    /\ InitCollect
    /\ InitHttp
    /\ InitStore
    /\ InitProcessing
    /\ InitEdgar
    /\ InitConstruct
    /\ InitWorkers
    /\ InitSources
    /\ InitUrl
    /\ InitBacklog
    /\ InitRuns
    /\ InitSnapshot
    /\ hook \in BOOLEAN
    /\ now = 1

Next ==
    \/ NextCollect \/ NextHttp \/ NextStore \/ NextProcessing \/ NextScan
    \/ NextBatch \/ NextConstruct \/ NextWorkers
    \/ NextSources \/ NextUrl \/ NextBacklog
    \/ NextRuns \/ NextSnapshot

\* sessions of collect() on one source; its fetch is part of the environment
InitOfCollect == Init /\ hook

SpecCollect == InitOfCollect /\ [][NextCollect]_vars

\* request() calls on one HTTP source
InitOfHttp == Init /\ kind = "http"

SpecHttp == InitOfHttp /\ [][NextHttp]_vars

\* calls on the store while the clock runs
InitOfStore == Init /\ kind = "base" /\ hook

SpecStore == InitOfStore /\ [][NextStore]_vars

\* calls on the video and processing tables while the clock runs
SpecProcessing == InitOfStore /\ [][NextProcessing]_vars

\* one scan of the Form 4 feed by an EDGAR client
SpecScan == InitOfStore /\ [][NextScan]_vars

\* batches of filings processed by one EDGAR client into one store
SpecBatch == InitOfStore /\ [][NextBatch]_vars

\* two workers upserting one key of the store at the same time
SpecWorkers == InitOfStore /\ [][NextWorkers]_vars

\* two sources whose collect() sessions interleave
SpecSources == InitOfStore /\ [][NextSources]_vars

\* URLs built by a source from its base URL
SpecUrl == InitOfStore /\ [][NextUrl]_vars

\* the backlog initialization of a channel
SpecBacklog == InitOfStore /\ [][NextBacklog]_vars

\* scans whose loop is scheduled whenever it can take a step: the thread
\* that runs get_recent_form4_filings is never suspended for ever
SpecScanFair ==
    /\ InitOfStore
    /\ [][NextScan]_vars
    /\ WF_vars(ScanRateLimit)
    /\ WF_vars(ScanFetch)
    /\ WF_vars(ScanFetchPastEnd)

\* two batch runs that process one filing against one store
SpecRuns == InitOfStore /\ [][NextRuns]_vars

\* a source and a caller that holds what get_stats() returned
SpecSnapshot == InitOfStore /\ [][NextSnapshot]_vars

\* clients and sources being constructed and used
SpecConstruct == InitOfStore /\ [][NextConstruct]_vars

Spec == Init /\ [][Next]_vars

----------------------------------------------------------------------------
(* Claims about collect(). *)

\* parse or validate raises for raw item r
ItemRaises(r) ==
    \/ Parse(r).tag = "raise"
    \/ (Parse(r).tag = "parsed" /\ Validate(Parse(r)) = "raise")

\* the last record of an error log
LastError(st) == st.errors[Len(st.errors)]

\* C1: at the end of every collect() pass that returned a list, also a second
\* pass on the same source, items_validated + items_failed = items_fetched,
\* and the returned list has items_validated entries, at most items_fetched.
C1_CountsAddUp ==
    (pc = "idle" /\ ret.kind = "returned") =>
        /\ stats.items_validated + stats.items_failed = stats.items_fetched
        /\ Len(ret.value) = stats.items_validated
        /\ Len(ret.value) <= stats.items_fetched

\* C2: when parse or validate raises for a raw item, the loop body appends
\* exactly one error record of type processing_error whose context is the
\* first 100 characters of the item, adds one to items_failed and goes on to
\* the next item; a pass that leaves the loop has visited every raw item.
C2_ItemFailureIsolated ==
    /\ [][(pc = "loop" /\ idx <= Len(raw_items) /\ ItemRaises(raw_items[idx])) =>
            LET r == raw_items[idx]
                n == IF StrLen(r) < 100 THEN StrLen(r) ELSE 100 IN
            /\ Len(stats'.errors) = Len(stats.errors) + 1
            /\ SubSeq(stats'.errors, 1, Len(stats.errors)) = stats.errors
            /\ LastError(stats').type = "processing_error"
            /\ LastError(stats').context.of = r
            /\ LastError(stats').context.len = n
            /\ stats'.items_failed = stats.items_failed + 1
            /\ stats'.items_validated = stats.items_validated
            /\ validated_items' = validated_items
            /\ pc' = "loop"
            /\ idx' = idx + 1
            /\ raw_items' = raw_items]_vars
    /\ [](pc = "finally" /\ inflight = "none" => idx = Len(raw_items) + 1)

\* C2 witness: the loop is over for a raising 130-character item followed by
\* a good item: the good item is validated, one 100-character context logged.
C2_Witness ==
    /\ pc = "finally"
    /\ raw_items = <<"parse_raises", "good">>
    /\ validated_items = <<Parse("good")>>
    /\ Len(stats.errors) = 1
    /\ LastError(stats).context = [of |-> "parse_raises", len |-> 100]
    /\ stats.items_failed = 1

\* C3: end_session runs exactly once on every exit path of collect(); when
\* fetch raised, the caller gets that error, after end_session ran, and no
\* result list.
C3_EndSessionOnEveryExit ==
    /\ end_calls <= 1
    /\ (pc = "idle" /\ ncollect > 0 /\ ret.kind # "none") => end_calls = 1
    /\ (pc = "idle" /\ inflight = "FetchError" /\ ret.kind # "none") =>
           ret = Raised("FetchError")

----------------------------------------------------------------------------
(* Claims about request(). *)

\* the most recent call on the source was a request() call that is over
RequestOver == hpc = "idle" /\ hret.kind # "none"

\* session.request failed before it reached the transport
FailedEarly == sess.exc \in {"MissingSchema", "TypeError"}

\* answer a is a response with a status of the retryable set
RetryableStatus(a) == a.error = "none" /\ a.status \in StatusForcelist

\* answer a is a response with an error status outside the retryable set
OtherErrorStatus(a) ==
    a.error = "none" /\ a.status >= 400 /\ a.status \notin StatusForcelist

\* the failure classes request() files a failed call under
FailureClasses ==
    {"http_404", "http_413", "http_503", "timeout", "connection_error",
     "request_exception", "unexpected_error"}

\* errors_by_type differs from its value before the call by one more failure
\* of class c and nothing else
OneMoreOf(c) ==
    stats.errors_by_type =
        Put(pre.errors_by_type, c, Get(pre.errors_by_type, c, 0) + 1)

\* C4: a logical request that ends in failure with HTTP status s returns no
\* result and records exactly one failure, of class http_<s>.
C4_HttpFailureClass ==
    (RequestOver /\ sess.exc = "none" /\ RaisesForStatus(sess.status)) =>
        /\ hret = ReturnsNone
        /\ OneMoreOf(HttpClass(StatusStr(sess.status)))

\* C5: when the transport answers a request with a retryable status k times
\* and then with 200, k below the retry bound, request() returns the 200
\* response after exactly k + 1 attempts and counts one success and no
\* failure.  A call that ends after fewer than max_retries answers, all of
\* them retryable statuses, has given up before the answer that may be the 200.
C5_RetryThenSuccess ==
    (RequestOver /\ ~FailedEarly) =>
        /\ ~(Len(history) < MaxRetries /\ \A i \in DOMAIN history : RetryableStatus(history[i]))
        /\ (/\ history # <<>>
            /\ Len(history) <= MaxRetries
            /\ history[Len(history)] = Resp(200, FALSE)
            /\ \A i \in 1..(Len(history) - 1) : RetryableStatus(history[i]))
           => /\ hret = Response(200)
              /\ attempts = Len(history)
              /\ stats.successful_requests = pre.successful_requests + 1
              /\ stats.failed_requests = pre.failed_requests
              /\ stats.errors_by_type = pre.errors_by_type
              /\ stats.errors = pre.errors

C7_NeverPropagates ==
    RequestOver =>
        /\ hret.kind \in {"response", "None"}
        /\ hret.kind = "None" =>
              /\ stats.failed_requests = pre.failed_requests + 1
              /\ \E c \in FailureClasses : OneMoreOf(c)

\* C8: a response with an error status outside the retryable set is never
\* retried: no attempt follows it, the call returns None and counts a failure.
C8_OtherStatusNotRetried ==
    \A i \in DOMAIN history :
        OtherErrorStatus(history[i]) =>
            /\ i = Len(history)
            /\ hpc # "sending"
            /\ RequestOver =>
                  /\ hret = ReturnsNone
                  /\ stats.failed_requests = pre.failed_requests + 1

----------------------------------------------------------------------------
(* Claims about the store. *)

\* no two rows of tbl share the value of column key
UniqueKey(tbl, key) ==
    \A i, j \in DOMAIN tbl : tbl[i][key] = tbl[j][key] => i = j

\* the row of tbl with channel_id id, when there is exactly one
ChannelRow(tbl, id) == tbl[CHOOSE i \in DOMAIN tbl : tbl[i].channel_id = id]

\* C9: after any sequence of upserts each table has at most one row per
\* natural key; a channel upsert repeated with identical data leaves exactly
\* one row for the key, with the content it had, and an update_datetime not
\* below the one the first call wrote.
C9_UpsertIdempotent ==
    /\ UniqueKey(channel, "channel_id")
    /\ UniqueKey(video, "video_id")
    /\ (repeated /\ last_op.op = "insert_channel") =>
          LET id == last_op.args[1] IN
          /\ Cardinality(RowsOf(channel, "channel_id", id)) = 1
          /\ Cardinality(RowsOf(before, "channel_id", id)) = 1
          /\ Len(channel) = Len(before)
          /\ ChannelRow(channel, id).channel_name = ChannelRow(before, id).channel_name
          /\ ChannelRow(channel, id).channel_description =
                ChannelRow(before, id).channel_description
          /\ ChannelRow(channel, id).initialized = ChannelRow(before, id).initialized
          /\ ChannelRow(channel, id).update_datetime >=
                ChannelRow(before, id).update_datetime

\* C9 witness: the second of two identical channel upserts succeeded a second
\* later than the first: one row, with the later update_datetime.
C9_Witness ==
    /\ repeated
    /\ last_op = Op("insert_channel", <<"UC1", "alpha", "about", 0>>, TRUE)
    /\ Len(channel) = 1
    /\ Len(before) = 1
    /\ channel[1].update_datetime > before[1].update_datetime

\* C10: the initialized flag of a channel never goes back from 1 to 0,
\* whatever upsert or mark call is made.
C10_InitializedNeverReverts ==
    [][\A i \in DOMAIN channel :
          channel[i].initialized = 1 =>
              \A j \in DOMAIN channel' :
                  channel'[j].channel_id = channel[i].channel_id =>
                      channel'[j].initialized = 1]_vars

\* C11: mark_channel_initialized on a store with no row for the id writes
\* nothing and returns a failure that differs from the one it returns for a
\* storage error; when the row exists it sets initialized = 1 on that row
\* only and returns success.
C11_NotFoundToldApart ==
    (last_op.op = "mark_channel_initialized") =>
        LET id == last_op.args[1] IN
        /\ outcome = "not_found" =>
              /\ channel = before
              /\ last_op.ok # TRUE
              /\ last_op.ok # MarkReturns("storage_error")
        /\ outcome = "ok" =>
              /\ last_op.ok = TRUE
              /\ Len(channel) = Len(before)
              /\ \A i \in DOMAIN channel :
                    IF before[i].channel_id = id
                    THEN channel[i].initialized = 1
                    ELSE channel[i] = before[i]

----------------------------------------------------------------------------
(* Claims about the processing records. *)

\* the set of the elements of a sequence
Range(s) == {s[i] : i \in DOMAIN s}

\* this step is a call of operation op on the store
CallOf(op) == nops' = nops + 1 /\ last_op'.op = op

\* C12: get_missing_video_ids returns exactly the video_ids that are in
\* video and not in video_processing; once update_video_processing has
\* succeeded for an id, the query no longer returns that id and still returns
\* every other id it returned before, in the same order.
C12_MissingIsAntiJoin ==
    /\ [][(CallOf("get_missing_video_ids") /\ last_op'.ok) =>
              /\ Range(missing') = Range(IdsOf(video)) \ Range(IdsOf(video_processing))
              /\ Len(missing') = Cardinality(Range(missing'))]_vars
    /\ [][(CallOf("update_video_processing") /\ last_op'.ok) =>
              LET id == last_op'.args[1]
                  was == GetMissingVideoIds(video, video_processing)
                  is == GetMissingVideoIds(video', video_processing') IN
              /\ id \notin Range(is)
              /\ is = SelectSeq(was, LAMBDA x : x # id)
              /\ (last_op.op = "get_missing_video_ids" /\ last_op.ok) =>
                     is = SelectSeq(missing, LAMBDA x : x # id)]_vars

\* C12 witness: the query returned v1, update_video_processing then succeeded
\* for v1, and v1 is a video the query no longer returns.
C12_Witness ==
    /\ last_op.op = "update_video_processing"
    /\ last_op.ok
    /\ last_op.args[1] = "v1"
    /\ "v1" \in Range(missing)
    /\ "v1" \in Range(IdsOf(video))
    /\ "v1" \notin Range(GetMissingVideoIds(video, video_processing))

\* C13: update_video_processing creates the row of the video when it is
\* absent and never a second one, and changes only the status, datetime and
\* file columns of the given step: every other row and the three columns of
\* the other step stay as they were; a call that fails changes nothing.
C13_StepColumnsOnly ==
    /\ [](UniqueKey(video_processing, "video_id"))
    /\ [][CallOf("update_video_processing") =>
              LET id == last_op'.args[1]
                  step == last_op'.args[2]
                  other == IF step = "extract" THEN "summarize" ELSE "extract"
                  old == IF RowsOf(video_processing, "video_id", id) = {}
                         THEN NewProcessingRow(id)
                         ELSE video_processing[CHOOSE i \in DOMAIN video_processing :
                                                   video_processing[i].video_id = id] IN
              IF last_op'.ok
              THEN /\ Cardinality(RowsOf(video_processing', "video_id", id)) = 1
                   /\ \A i \in DOMAIN video_processing : video_processing[i].video_id # id =>
                          video_processing'[i] = video_processing[i]
                   /\ \A i \in DOMAIN video_processing' : video_processing'[i].video_id = id =>
                          /\ video_processing'[i][ColumnStatus(other)] = old[ColumnStatus(other)]
                          /\ video_processing'[i][ColumnDatetime(other)] = old[ColumnDatetime(other)]
                          /\ video_processing'[i][ColumnFile(other)] = old[ColumnFile(other)]
                          /\ video_processing'[i][ColumnStatus(step)] = last_op'.args[3]
                          /\ video_processing'[i][ColumnDatetime(step)] = now
                          /\ video_processing'[i][ColumnFile(step)] = last_op'.args[4]
                   /\ Len(video_processing') =
                         Len(video_processing) +
                         (IF RowsOf(video_processing, "video_id", id) = {} THEN 1 ELSE 0)
              ELSE video_processing' = video_processing]_vars

\* C13 witness: summarize was recorded for v1 a second after extract, and the
\* one row of v1 holds both steps, extract as its own call wrote it.
C13_Witness ==
    /\ last_op = Op("update_video_processing", <<"v1", "summarize", "failed", Null, "summarize">>, TRUE)
    /\ Len(video_processing) = 1
    /\ video_processing[1].extract_status = "completed"
    /\ video_processing[1].extract_file = "out.txt"
    /\ video_processing[1].summarize_status = "failed"
    /\ video_processing[1].extract_datetime < video_processing[1].summarize_datetime

----------------------------------------------------------------------------
(* Claims about the scan of the Form 4 feed. *)

\* the feed has an item older than the cutoff
HasStale(f) == f.stale_from <= f.len

\* the index of the page that holds the first stale item of the feed
FirstStalePage(f) == ((f.stale_from - 1) \div Count) + 1

\* the loop body of process_and_store_form4s ends for the filing at fidx
StoreStep == bpc = "store" /\ bpc' # "store"

\* the rows of a table that carry accession number a
FilingRows(tbl, a) ==
    SelectSeq(tbl, LAMBDA r : r.accession_number = a)

\* C14: an insert of a filing that fails leaves the store as it was, with no
\* filing row and no transaction row for the accession number; one that
\* succeeds leaves the filing row and one transaction row per transaction of
\* the filing; no transaction row is ever without its filing row.
C14_InsertAllOrNothing ==
    /\ [][(StoreStep /\ last_store'.verdict \in {"stored", "insert_failed"}) =>
            LET a == form4_data.accession_number IN
            IF last_store'.verdict = "stored"
            THEN /\ Len(FilingRows(db_filings', a)) = 1
                 /\ [i \in 1..Len(FilingRows(db_transactions', a)) |->
                        FilingRows(db_transactions', a)[i].txn] = form4_data.transactions
            ELSE /\ FilingRows(db_filings', a) = <<>>
                 /\ FilingRows(db_transactions', a) = <<>>
                 /\ db_filings' = db_filings
                 /\ db_transactions' = db_transactions]_vars
    /\ [](\A i \in DOMAIN db_transactions :
            FilingExists(db_filings, db_transactions[i].accession_number))

\* C14 witness: the insert of a filing with two transactions failed at the
\* second transaction row, and the store holds nothing for the accession.
C14_Witness ==
    /\ last_store.verdict = "insert_failed"
    /\ last_store.bad = 2
    /\ Len(form4_data.transactions) = 2
    /\ FilingRows(db_filings, last_store.accession) = <<>>
    /\ FilingRows(db_transactions, last_store.accession) = <<>>

\* C15: a filing of the list whose accession number is already in the store
\* is not inserted again and is counted as skipped (no call on the store
\* having raised), and the store never holds two filing rows for one
\* accession number.
C15_StoredFilingSkipped ==
    /\ [][(/\ StoreStep
            /\ FilingExists(db_filings, filings_list[fidx])
            /\ last_store'.verdict # "raised") =>
            /\ db_filings' = db_filings
            /\ db_transactions' = db_transactions
            /\ bstats'.skipped = bstats.skipped + 1
            /\ bstats'.failed = bstats.failed]_vars
    /\ [](\A a \in Accessions : Len(FilingRows(db_filings, a)) <= 1)

\* C18: every request the EDGAR client sends comes after a rate-limit wait
\* made since its previous request.
C18_WaitBeforeEveryRequest ==
    [][ndispatch' = ndispatch + 1 => waited]_vars

\* C16: the scan halts right after the first page that holds an item older
\* than the cutoff: it returns with as many pages requested as the index of
\* that page, and requests no page once a stale item has been gathered.
C16_HaltsAtFirstStalePage ==
    /\ [](scan_ret = "returned" =>
             /\ HasStale(feed)
             /\ Len(fetches) = FirstStalePage(feed)
             /\ spc = "done")
    /\ [][(\E i \in DOMAIN holder : Stale(feed, holder[i])) => fetches' = fetches]_vars

\* C16 witness: a feed of 250 items, item 120 the first stale one: the scan
\* has returned after 2 page requests.
C16_Witness ==
    /\ feed = [len |-> 250, stale_from |-> 120]
    /\ scan_ret = "returned"
    /\ Len(fetches) = 2

\* C17: the k-th page is requested at offset (k - 1) * count, and the items
\* gathered are, in feed order, all items of all pages answered so far, the
\* page with the first stale item included in full.
C17_PagesContiguous ==
    /\ \A k \in DOMAIN fetches : fetches[k] = (k - 1) * Count
    /\ (scan_ret # "raised" /\ spc # "fetch") =>
          LET reach == Len(fetches) * Count
              n == IF feed.len < reach THEN feed.len ELSE reach IN
          holder = [i \in 1..n |-> i]
    /\ scan_ret = "returned" => start = Len(fetches) * Count

\* C17 witness: the scan of the 250-item feed with item 120 the first stale
\* one has returned items 1 to 200, the stale items 120 to 200 among them.
C17_Witness ==
    /\ feed = [len |-> 250, stale_from |-> 120]
    /\ scan_ret = "returned"
    /\ fetches = <<0, 100>>
    /\ Len(holder) = 200
    /\ holder[200] = 200

\* C19: every step that adds one to items_failed, and every step that adds
\* one to failed_requests, appends exactly one record to the error log.
C19_FailureCountedIsLogged ==
    /\ [][stats'.items_failed = stats.items_failed + 1 =>
            Len(stats'.errors) = Len(stats.errors) + 1]_vars
    /\ [][("failed_requests" \in DOMAIN stats /\ "failed_requests" \in DOMAIN stats'
            /\ stats'.failed_requests = stats.failed_requests + 1) =>
            Len(stats'.errors) = Len(stats.errors) + 1]_vars

\* C20: the statistics a collect() pass ends with are those of that pass
\* alone, whatever passes came before it on the same source: the validated
\* count is the length of the list returned, the failed count is the rest of
\* the items fetched, and the error log has at most one record per item.
C20_StatsOfThisSessionOnly ==
    (pc = "idle" /\ ret.kind = "returned") =>
        /\ stats.items_validated = Len(ret.value)
        /\ stats.items_failed = stats.items_fetched - Len(ret.value)
        /\ Len(stats.errors) <= stats.items_fetched

\* the configuration lacks a proxy credential
LacksCredentials(cfg) ==
    ~HasCredential(cfg, "username") \/ ~HasCredential(cfg, "password")

\* C21: a client constructed without a valid identifying user agent (empty,
\* or without a contact address) ends in the exception of its constructor:
\* no HTTP session has been created and no request is made through it.
C21_InvalidUserAgentFailsFast ==
    (/\ client.cls \in {"EDGARAPIClient", "BaseHTTPSource"}
     /\ ~ValidUserAgent(client.user_agent)) =>
        /\ client.state = "raised"
        /\ ~client.session
        /\ call.n = 0

\* C22: a source constructed with no proxy configuration, or with one that
\* lacks a credential, sends directly, and no request or transcript fetch
\* through it raises or is proxied; with both credentials the http and the
\* https route of the session go through the proxy.
C22_ProxyAbsenceNotFatal ==
    /\ (client.state = "constructed" /\ LacksCredentials(client.proxy_config)) =>
          /\ client.proxies = Direct
          /\ call.raised = "none"
          /\ ~call.proxied
    /\ (/\ client.state = "constructed"
        /\ client.cls = "BaseHTTPSource"
        /\ ~LacksCredentials(client.proxy_config)) =>
          client.proxies = ViaProxy

\* C23: a filing whose processing returned nothing, whose insert returned
\* failure or whose handling raised is counted as failed and its accession
\* number is appended to failed_accessions; whatever happened to a filing,
\* the loop goes on to the next one, and the batch is over only when every
\* filing of the list has been handled.
C23_FailedFilingDoesNotStopBatch ==
    /\ [][(/\ StoreStep
           /\ \/ form4_data = NoForm4
              \/ last_store'.verdict \in {"insert_failed", "raised"}) =>
            /\ bstats'.failed = bstats.failed + 1
            /\ Len(bstats'.failed_accessions) = Len(bstats.failed_accessions) + 1
            /\ bstats'.failed_accessions[Len(bstats'.failed_accessions)].accession
                  = filings_list[fidx]]_vars
    /\ [][StoreStep =>
            /\ fidx' = fidx + 1
            /\ bpc' = IF fidx < Len(filings_list) THEN "wait1" ELSE "done"]_vars
    /\ [](bpc = "done" => fidx = Len(filings_list) + 1)
    /\ [](bstats.failed = Len(bstats.failed_accessions))

\* C23 witness: the first filing of a list of two failed at the insert, the
\* second was stored, and the batch is over.
C23_Witness ==
    /\ bpc = "done"
    /\ Len(filings_list) = 2
    /\ bstats.failed = 1
    /\ bstats.successful = 1
    /\ bstats.failed_accessions[1] =
          [accession |-> filings_list[1], reason |-> "Database insertion failed"]
    /\ last_store.verdict = "stored"

\* the parsed forms, in order, of the raw items of a list for which parse
\* gave a value and validate gave True
ValidParsed(raws) ==
    LET keep == SelectSeq(raws, LAMBDA r :
                    Parse(r).tag = "parsed" /\ Validate(Parse(r)) = "True") IN
    [i \in DOMAIN keep |-> Parse(keep[i])]

TruthyValidParsed(raws) ==
    LET keep == SelectSeq(raws, LAMBDA r :
                    /\ Parse(r).tag = "parsed"
                    /\ ~Falsy(Parse(r))
                    /\ Validate(Parse(r)) = "True") IN
    [i \in DOMAIN keep |-> Parse(keep[i])]

C25_InvalidStepRejected ==
    [][CallOf("update_video_processing") =>
          IF last_op'.args[5] \in {"extract", "summarize", "Summarize"}
          THEN outcome' # "ValueError"
          ELSE /\ outcome' = "ValueError"
               /\ ~last_op'.ok
               /\ video_processing' = video_processing]_vars

\* C25 witness: the call with step 'transcribe' for a video without a
\* processing row raised ValueError and no row was created.
C25_Witness ==
    /\ last_op.op = "update_video_processing"
    /\ last_op.args[5] = "transcribe"
    /\ outcome = "ValueError"
    /\ video # <<>>
    /\ RowsOf(video_processing, "video_id", last_op.args[1]) = {}


\* the table a worker wrote to
TableOf(tbl) == IF tbl = "channel" THEN channel ELSE video

\* C26: when two workers upsert the same channel_id (or video_id) at the
\* same time, then in every interleaving, once both calls are over, the
\* table holds exactly one row for the key, and every column of that row is
\* what one of the two upserts, one that returned True, wrote
C26_ConcurrentUpsertOneRow ==
    (/\ \A w \in Workers : wpc[w] = "done"
     /\ wargs[1].tbl = wargs[2].tbl)
    => LET t == TableOf(wargs[1].tbl)
           key == KeyOf(wargs[1].tbl)
           rows == RowsOf(t, key, wargs[1].row[key]) IN
       /\ Cardinality(rows) = 1
       /\ \E w \in Workers : \E i \in rows :
            wret[w] = "True" /\ t[i] = wargs[w].row

\* both workers upserted the same key with different data, both calls
\* returned True
C26_Witness ==
    /\ \A w \in Workers : wpc[w] = "done" /\ wret[w] = "True"
    /\ wargs[1].tbl = wargs[2].tbl
    /\ wargs[1].row # wargs[2].row


\* the counters and the error log of a stats dict, each error record
\* without the wall-clock reading it was stamped with
Report(st) ==
    [items_fetched |-> st.items_fetched,
     items_validated |-> st.items_validated,
     items_failed |-> st.items_failed,
     errors |-> [i \in DOMAIN st.errors |->
                    [type |-> st.errors[i].type,
                     message |-> st.errors[i].message,
                     context |-> st.errors[i].context]]]

RECURSIVE AloneUpTo(_, _)
\* the stats of a newly built source after collect() ran alone over the
\* first k items of a fetched list
AloneUpTo(items, k) ==
    IF k = 0 THEN [BaseStats EXCEPT !.items_fetched = Len(items)]
    ELSE ItemStats(AloneUpTo(items, k - 1), items[k])

\* C27: two sources that run their sessions at the same time share no
\* statistics: in every interleaving, the counters and the error log of each
\* source at the end of its session are those the source would report had it
\* run alone on the same fetched items
C27_SourcesShareNoStatistics ==
    \A s \in Sources :
        src_pc[s] = "done"
        => Report(cells[StatsCell(s)])
             = Report(AloneUpTo(src_items[s], Len(src_items[s])))

\* both sessions are over, they overlapped, and each met an item that
\* counts as validated and one that left an error record
C27_Witness ==
    /\ overlapped
    /\ \A s \in Sources :
        /\ src_pc[s] = "done"
        /\ \E i \in DOMAIN src_items[s] : src_items[s][i] = "good"
        /\ \E i \in DOMAIN src_items[s] : src_items[s][i] = "parse_raises"


\* t without the slashes it ends with
WithoutTrailingSlashes(t) ==
    LET n == CHOOSE k \in 0..Len(t) :
                /\ \A i \in (k + 1)..Len(t) : t[i] = "/"
                /\ k = 0 \/ t[k] # "/" IN
    SubSeq(t, 1, n)

\* t without the slashes it begins with
WithoutLeadingSlashes(t) ==
    LET n == CHOOSE k \in 1..(Len(t) + 1) :
                /\ \A i \in 1..(k - 1) : t[i] = "/"
                /\ k = Len(t) + 1 \/ t[k] # "/" IN
    SubSeq(t, n, Len(t))

\* C28: _build_url returns a URL that starts with http:// or https://
\* unchanged; it joins any other path to the configured base URL with
\* exactly one '/' between them, the trailing slashes of the base and the
\* leading slashes of the path removed; with no base URL it returns the path
\* unchanged; applying it twice gives what applying it once gives when the
\* base URL is absolute
C28_BuildUrl ==
    upc = "built"
    => /\ StartsWithScheme(url_arg) => built = url_arg
       /\ (~StartsWithScheme(url_arg) /\ TruthyStr(base_arg))
            => built = WithoutTrailingSlashes(base_arg.str) \o <<"/">>
                         \o WithoutLeadingSlashes(url_arg)
       /\ ~TruthyStr(base_arg) => built = url_arg
       /\ (TruthyStr(base_arg) /\ StartsWithScheme(base_arg.str))
            => rebuilt = built

\* C28, amended: _build_url returns a URL that starts with http:// or
\* https:// unchanged; it joins any other path to the configured base URL
\* with exactly one '/' between them, the trailing slashes of the base and
\* the leading slashes of the path removed, when the base URL has a
\* character other than '/'; with no base URL, an empty one or one made of
\* slashes only it returns the path unchanged; applying it twice gives what
\* applying it once gives when the base URL without its trailing slashes
\* still starts with http:// or https://
C28_BuildUrlOfStrippedBase ==
    upc = "built"
    => LET stripped == IF TruthyStr(base_arg)
                       THEN WithoutTrailingSlashes(base_arg.str) ELSE <<>> IN
       /\ StartsWithScheme(url_arg) => built = url_arg
       /\ (~StartsWithScheme(url_arg) /\ stripped # <<>>)
            => built = stripped \o <<"/">> \o WithoutLeadingSlashes(url_arg)
       /\ stripped = <<>> => built = url_arg
       /\ StartsWithScheme(stripped) => rebuilt = built

\* a path with a leading slash was joined to an absolute base URL with a
\* trailing slash
C28_Witness ==
    /\ upc = "built"
    /\ base_arg = Some(<<"https:", "/", "/", "a", "/">>)
    /\ url_arg = <<"/", "a">>
    /\ built = <<"https:", "/", "/", "a", "/", "a">>
    /\ rebuilt = built


\* C29: the backlog initialization marks the channel initialized only after
\* the channel row and every video of the backlog were upserted: when the
\* channel upsert or a video upsert of a run returned False or raised, the
\* run leaves no channel row with initialized = 1
C29_InitializedOnlyAfterFullBacklog ==
    (ipc = "done" /\ ifailed)
    => \A i \in DOMAIN channel : channel[i].initialized # 1


\* C30: the recent-filings scan terminates for every finite feed, also when
\* no item of the feed is older than the cutoff: a scan that was started
\* eventually stops fetching pages and returns or raises
C30_ScanTerminates == (spc \in {"wait", "fetch"}) ~> (spc = "done")

\* the scan of a feed that has an item older than the cutoff terminates
ScanOfStaleFeedTerminates ==
    (spc \in {"wait", "fetch"} /\ feed.stale_from <= feed.len) ~> (spc = "done")


RequestReturned == RequestOver /\ hret.kind \in {"response", "None"}

\* C32: after every call of request() that returns, total_requests =
\* successful_requests + failed_requests: the call raised total_requests by
\* one and one of successful_requests and failed_requests by one, the other
\* being left alone, and it returned a response exactly when the one it
\* raised is successful_requests
C32_RequestCountsAddUp ==
    RequestReturned =>
        /\ stats.total_requests = stats.successful_requests + stats.failed_requests
        /\ stats.total_requests = pre.total_requests + 1
        /\ \/ /\ stats.successful_requests = pre.successful_requests + 1
              /\ stats.failed_requests = pre.failed_requests
           \/ /\ stats.successful_requests = pre.successful_requests
              /\ stats.failed_requests = pre.failed_requests + 1
        /\ hret.kind = "response"
             <=> stats.successful_requests = pre.successful_requests + 1

\* a call that returned a response, then one that ended on an HTTP error
\* status and returned None
C32_Witness ==
    /\ RequestReturned
    /\ hret = ReturnsNone
    /\ sess.exc = "none"
    /\ stats.successful_requests = 1
    /\ stats.failed_requests = 1

RECURSIVE SumOfCounts(_)
\* the sum of the values of a dict of counts
SumOfCounts(d) ==
    IF DOMAIN d = {} THEN 0
    ELSE LET k == CHOOSE x \in DOMAIN d : TRUE IN
         d[k] + SumOfCounts([x \in DOMAIN d \ {k} |-> d[x]])

\* C33: after any sequence of request() calls the counts in errors_by_type
\* add up to failed_requests: a request that failed raised the count of
\* exactly one failure class by one, a request that returned a response
\* left errors_by_type as it was
C33_ErrorClassesAddUpToFailed ==
    /\ "errors_by_type" \in DOMAIN stats
         => SumOfCounts(stats.errors_by_type) = stats.failed_requests
    /\ RequestReturned =>
         IF hret.kind = "None"
         THEN \E c \in DOMAIN stats.errors_by_type : OneMoreOf(c)
         ELSE stats.errors_by_type = pre.errors_by_type

\* two requests failed, both filed under the same failure class
C33_Witness ==
    /\ RequestReturned
    /\ stats.failed_requests = 2
    /\ \E c \in DOMAIN stats.errors_by_type :
         stats.errors_by_type = Put(EmptyDict, c, 2)


\* the statistics a source has right after construction
StatsAtConstruction == IF kind = "http" THEN BaseStats @@ HttpStats ELSE BaseStats

\* C34: reset_stats() puts the statistics of a source back to what they were
\* right after construction: on an HTTP source total_requests,
\* successful_requests, failed_requests and errors_by_type are there, zero
\* and empty, and a request() call after the reset does not fail on them
C34_ResetRestoresConstruction ==
    /\ [][ResetStats => stats' = StatsAtConstruction]_vars
    /\ [](hret # Propagates("KeyError"))


\* C35: what get_stats() returned is a snapshot: an error the source tracks
\* and a counter it changes after the call do not change what the returned
\* dict reads as, and what the caller changes in the returned dict does not
\* change what the statistics of the source read as
C35_GetStatsIsSnapshot ==
    /\ [][(returned.taken /\ (SourceTracksError \/ SourceResets))
            => Reads(returned', heap') = Reads(returned, heap)]_vars
    /\ [][(CallerSetsCounter \/ CallerAppendsError)
            => Reads(self_stats', heap') = Reads(self_stats, heap)]_vars


\* C36: for every list of filings the statistics process_and_store_form4s
\* returns satisfy successful + failed + skipped = total_filings, the length
\* of failed_accessions is failed, and total_transactions is the sum of the
\* transaction counts of the filings counted as successful: each filing adds
\* one to exactly one of the three counters, and its transaction count to
\* total_transactions exactly when that counter is successful
C36_BatchStatsAddUp ==
    /\ [](bpc = "done" =>
            /\ bstats.total_filings = Len(filings_list)
            /\ bstats.successful + bstats.failed + bstats.skipped
                 = bstats.total_filings
            /\ Len(bstats.failed_accessions) = bstats.failed)
    /\ [](bpc \notin {"idle", "done"} =>
            bstats.successful + bstats.failed + bstats.skipped = fidx - 1)
    /\ [][StoreStep =>
            bstats'.total_transactions =
                bstats.total_transactions +
                    (IF bstats'.successful = bstats.successful + 1
                     THEN Len(form4_data.transactions) ELSE 0)]_vars
    /\ [][BatchStart => bstats'.total_transactions = 0]_vars

\* a batch of two filings with the same accession number is over: the first
\* was stored with its two transactions, the second skipped
C36_Witness ==
    /\ bpc = "done"
    /\ Len(filings_list) = 2
    /\ bstats.successful = 1
    /\ bstats.skipped = 1
    /\ bstats.total_transactions = 2

=============================================================================
